---- MODULE Spec2Model ----
(***************************************************************************)
(* Model of the dependency graph builder (graph/builder.js) and of the     *)
(* hierarchy detector (parser/hierarchy-detector.ts).                      *)
(*                                                                         *)
(* A path, an import specifier, a node id or a name is a string, and a      *)
(* string is the sequence of its characters: the operations of             *)
(* String.prototype and of node:path are computed character by character.  *)
(***************************************************************************)
EXTENDS Integers, Sequences, FiniteSets, TLC

VARIABLES files, projectPath, pathAliasCache, options, graph, pc,
          oldGraph, newGraph, changes, diff, args, parsing, inflight

vars == <<files, projectPath, pathAliasCache, options, graph, pc,
          oldGraph, newGraph, changes, diff, args, parsing, inflight>>

\* ------------------------------------------------------------------------
\* Bounds of the model
\* ------------------------------------------------------------------------
MaxImports == 2

MaxInterfaces == 2

MaxRenders == 2

MaxDepth == 2

MaxTypeDefs == 2

MaxDiffEdges == 3

\* ------------------------------------------------------------------------
\* Generic helpers
\* ------------------------------------------------------------------------
Range(s) == {s[i] : i \in 1..Len(s)}

\* String.prototype.startsWith / endsWith / includes: a string is the
\* sequence of its characters
StartsWith(s, t) == Len(t) <= Len(s) /\ SubSeq(s, 1, Len(t)) = t

EndsWith(s, t) == Len(t) <= Len(s) /\ SubSeq(s, Len(s) - Len(t) + 1, Len(s)) = t

Includes(s, t) ==
    \E i \in 0..(Len(s) - Len(t)) : SubSeq(s, i + 1, i + Len(t)) = t

\* the character of s at the 1-based position i
CharAt(s, i) == SubSeq(s, i, i)

\* String.prototype.indexOf / lastIndexOf for a character, 1-based, 0 when
\* the character does not occur
RECURSIVE IndexFrom(_, _, _)
IndexFrom(s, c, i) ==
    IF i > Len(s) THEN 0 ELSE IF CharAt(s, i) = c THEN i ELSE IndexFrom(s, c, i + 1)

FirstIndexOf(s, c) == IndexFrom(s, c, 1)

RECURSIVE LastIndexFrom(_, _, _)
LastIndexFrom(s, c, i) ==
    IF i < 1 THEN 0 ELSE IF CharAt(s, i) = c THEN i ELSE LastIndexFrom(s, c, i - 1)

LastIndexOf(s, c) == LastIndexFrom(s, c, Len(s))

\* String.prototype.split for a separator of one character
RECURSIVE SplitAt(_, _, _)
SplitAt(s, sep, i) ==
    IF i = 0 THEN <<s>>
    ELSE <<SubSeq(s, 1, i - 1)>>
         \o SplitAt(SubSeq(s, i + 1, Len(s)), sep, FirstIndexOf(SubSeq(s, i + 1, Len(s)), sep))

Split(s, sep) == SplitAt(s, sep, FirstIndexOf(s, sep))

\* Array.prototype.join
RECURSIVE Join(_, _)
Join(parts, sep) ==
    IF parts = <<>> THEN ""
    ELSE IF Len(parts) = 1 THEN parts[1]
    ELSE parts[1] \o sep \o Join(Tail(parts), sep)

\* s.replace(/\\/g, '/')
BackslashesToSlashes(s) == Join(Split(s, "\\"), "/")

\* s.replace(/\/\*$/, by)
ReplaceTrailingGlob(s, by) ==
    IF EndsWith(s, "/*") THEN SubSeq(s, 1, Len(s) - 2) \o by ELSE s

\* A JavaScript Map keeps insertion order; set() on a present key replaces
\* the value in place.  A map is a sequence of [key, value] records.
MapHas(m, k) == \E i \in 1..Len(m) : m[i].key = k

MapGet(m, k) == m[CHOOSE i \in 1..Len(m) : m[i].key = k].value

MapSet(m, k, v) ==
    IF MapHas(m, k)
    THEN [i \in 1..Len(m) |-> IF m[i].key = k THEN [key |-> k, value |-> v] ELSE m[i]]
    ELSE Append(m, [key |-> k, value |-> v])

MapValues(m) == [i \in 1..Len(m) |-> m[i].value]

\* ------------------------------------------------------------------------
\* Paths (the posix implementation of node:path)
\* ------------------------------------------------------------------------
\* process.cwd()
Cwd == "/w"

\* the extensions of /\.(ts|tsx|js|jsx|mts|cts)$/
SourceExts == {".ts", ".tsx", ".js", ".jsx", ".mts", ".cts"}

\* absolutePath.replace(/\.(ts|tsx|js|jsx|mts|cts)$/, '')
StripExt(p) ==
    IF \E e \in SourceExts : EndsWith(p, e)
    THEN SubSeq(p, 1, Len(p) - Len(CHOOSE e \in SourceExts : EndsWith(p, e)))
    ELSE p

\* normalizeString: "" and "." segments are dropped, ".." removes the
\* segment before it or, above the root of a relative path, stays
RECURSIVE NormalizeSegments(_, _, _)
NormalizeSegments(res, segs, allowAboveRoot) ==
    IF segs = <<>> THEN res
    ELSE NormalizeSegments(
             IF Head(segs) = "" \/ Head(segs) = "." THEN res
             ELSE IF Head(segs) = ".."
                  THEN IF res # <<>> /\ res[Len(res)] # ".." THEN SubSeq(res, 1, Len(res) - 1)
                       ELSE IF allowAboveRoot THEN Append(res, "..") ELSE res
             ELSE Append(res, Head(segs)),
             Tail(segs), allowAboveRoot)

NormalizeString(p, allowAboveRoot) ==
    Join(NormalizeSegments(<<>>, Split(p, "/"), allowAboveRoot), "/")

\* path.normalize
NormalizedAs(p, normalized) ==
    IF normalized = ""
    THEN (IF StartsWith(p, "/") THEN "/" ELSE IF EndsWith(p, "/") THEN "./" ELSE ".")
    ELSE (IF StartsWith(p, "/") THEN "/" ELSE "")
         \o normalized
         \o (IF EndsWith(p, "/") THEN "/" ELSE "")

PathNormalize(p) ==
    IF p = "" THEN "." ELSE NormalizedAs(p, NormalizeString(p, ~StartsWith(p, "/")))

\* path.join
PathJoin(paths) ==
    IF SelectSeq(paths, LAMBDA p : p # "") = <<>> THEN "."
    ELSE PathNormalize(Join(SelectSeq(paths, LAMBDA p : p # ""), "/"))

\* path.resolve: the arguments are taken from the right until the path is
\* absolute, the working directory last
RECURSIVE ResolveFrom(_, _)
ResolveFrom(paths, resolved) ==
    IF paths = <<>> THEN Cwd \o "/" \o resolved
    ELSE IF paths[Len(paths)] = "" THEN ResolveFrom(SubSeq(paths, 1, Len(paths) - 1), resolved)
    ELSE IF StartsWith(paths[Len(paths)], "/") THEN paths[Len(paths)] \o "/" \o resolved
    ELSE ResolveFrom(SubSeq(paths, 1, Len(paths) - 1), paths[Len(paths)] \o "/" \o resolved)

PathResolve(paths) == "/" \o NormalizeString(ResolveFrom(paths, ""), FALSE)

\* the end of the path once its trailing slashes are dropped, the first
\* character kept
RECURSIVE TrimmedEnd(_, _)
TrimmedEnd(p, n) == IF n > 1 /\ CharAt(p, n) = "/" THEN TrimmedEnd(p, n - 1) ELSE n

\* path.dirname
\* i is the position, counted from the second character, of the last slash
\* before the last segment, 0 when there is none
DirnameAt(p, i) ==
    IF i = 0 THEN (IF StartsWith(p, "/") THEN "/" ELSE ".")
    ELSE IF StartsWith(p, "/") /\ i = 1 THEN "//"
    ELSE SubSeq(p, 1, i)

Dirname(p) ==
    IF p = "" THEN "."
    ELSE DirnameAt(p, LastIndexOf(SubSeq(p, 2, TrimmedEnd(p, Len(p))), "/"))

\* the last segment of a path, its trailing slashes dropped
RECURSIVE WithoutTrailingSlashes(_)
WithoutTrailingSlashes(p) ==
    IF EndsWith(p, "/") THEN WithoutTrailingSlashes(SubSeq(p, 1, Len(p) - 1)) ELSE p

AfterLastSlash(p) == SubSeq(p, LastIndexOf(p, "/") + 1, Len(p))

LastSegment(p) == AfterLastSlash(WithoutTrailingSlashes(p))

\* path.extname: from the last dot of the last segment, unless that dot is
\* its first character or the segment is ".."
ExtOfSegment(seg) ==
    IF LastIndexOf(seg, ".") <= 1 THEN ""
    ELSE IF seg = ".." THEN ""
    ELSE SubSeq(seg, LastIndexOf(seg, "."), Len(seg))

Extname(p) == ExtOfSegment(LastSegment(p))

\* path.basename(p, ext)
WithoutExt(seg, ext) ==
    IF ext # "" /\ EndsWith(seg, ext) /\ seg # ext
    THEN SubSeq(seg, 1, Len(seg) - Len(ext))
    ELSE seg

Basename(p, ext) ==
    IF ext # "" /\ ext = p THEN "" ELSE WithoutExt(LastSegment(p), ext)

\* Array.prototype.indexOf on the parts, 0-based, -1 when absent
IndexOf(parts, name) ==
    IF \E i \in 1..Len(parts) : parts[i] = name
    THEN (CHOOSE i \in 1..Len(parts) :
             parts[i] = name /\ \A j \in 1..(i - 1) : parts[j] # name) - 1
    ELSE -1

\* ------------------------------------------------------------------------
\* Hierarchy detection
\* ------------------------------------------------------------------------
\* A HierarchyInfo is a record; an absent optional field is absent from the
\* record's domain.
Has(r, field) == field \in DOMAIN r

\* the result once the indices are known (lines 181-241)
HierarchyAt(parts, srcIndex, archIndex) ==
    IF srcIndex = -1 THEN [level |-> "file"]
    ELSE (IF Len(parts) - (srcIndex + 1) - 1 < 1
          THEN [level |-> "module", module |-> "__root__"]
          ELSE IF Len(parts) - (srcIndex + 1) - 1 = 1
          THEN [level |-> "module", module |-> parts[srcIndex + 2]]
          ELSE [level |-> "component", module |-> parts[srcIndex + 2],
                component |-> parts[srcIndex + 3]])
         @@ (IF archIndex # -1 /\ archIndex < srcIndex - 1
             THEN [architecture |-> parts[archIndex + 2]] ELSE <<>>)

\* archIndex (line 179)
ArchIndex(packagesIndex, appsIndex) ==
    IF packagesIndex # -1 THEN packagesIndex ELSE appsIndex

HierarchyOfParts(parts) ==
    HierarchyAt(parts, IndexOf(parts, "src"),
                ArchIndex(IndexOf(parts, "packages"), IndexOf(parts, "apps")))

detectHierarchy(filePath) == HierarchyOfParts(Split(BackslashesToSlashes(filePath), "/"))

\* ------------------------------------------------------------------------
\* Node ids
\* ------------------------------------------------------------------------
RootP == "/p"

\* a second project root, with a tsconfig.json of its own
RootW == "/p/packages/web"

\* a project root whose tsconfig.json does not parse, beside a jsconfig.json
\* with a paths entry
RootA == "/p/packages/api"

\* a project root whose tsconfig.json does not parse, without a jsconfig.json
RootL == "/p/lib"

P_login == "/p/src/auth/login.ts"

P_loginJs == "/p/src/auth/login.js"

P_session == "/p/src/auth/session.ts"

P_repo == "/p/src/users/repo.ts"

P_card == "/p/src/users/ui/card.tsx"

P_main == "/p/src/main.ts"

P_tool == "/p/lib/tool.ts"

P_webLogin == "/p/packages/web/src/auth/login.ts"

P_webRepo == "/p/packages/web/src/users/repo.ts"

P_apiRepo == "/p/packages/api/src/users/repo.ts"

P_apiLogin == "/p/packages/api/src/auth/login.ts"

\* crypto.createHash('sha256').update(input).digest('hex').slice(-8), tabulated
\* for the paths of the model
generateShortHash(input) ==
    CASE input = P_login -> "2408ed56"
      [] input = P_loginJs -> "e6d5636c"
      [] input = P_session -> "81722e10"
      [] input = P_repo -> "9cace878"
      [] input = P_card -> "3844cbfc"
      [] input = P_main -> "1485b137"
      [] input = P_tool -> "80e40853"
      [] input = P_webLogin -> "06f9b7bd"
      [] input = P_webRepo -> "1bc0ed51"
      [] input = P_apiRepo -> "03826d66"
      [] input = P_apiLogin -> "fb9e6560"

\* generateNodeId without the hash of the path
generateNodeId_NoHash(filePath) ==
    "file:" \o Basename(filePath, Extname(filePath))

\* `file:${basename}-${hash}`
generateNodeId(filePath) ==
    "file:" \o Basename(filePath, Extname(filePath)) \o "-" \o generateShortHash(filePath)

\* ------------------------------------------------------------------------
\* Path aliases
\* ------------------------------------------------------------------------
\* The config files of a project root, in the order ['tsconfig.json',
\* 'jsconfig.json'].  Each is absent, unparseable, or parsed: the baseUrl and
\* the entries of compilerOptions.paths, in the order of the file.
AtSrc == << [pattern |-> "@/*", targets |-> <<"./src/*">>] >>

ConfigFiles(root) ==
    IF root = RootP
    THEN << [exists |-> TRUE, parses |-> TRUE, hasPaths |-> TRUE, baseUrl |-> ".",
             paths |-> AtSrc],
            [exists |-> FALSE] >>
    ELSE IF root = RootW
    THEN << [exists |-> TRUE, parses |-> TRUE, hasPaths |-> TRUE, paths |-> AtSrc],
            [exists |-> FALSE] >>
    ELSE IF root = RootA
    THEN << [exists |-> TRUE, parses |-> FALSE],
            [exists |-> TRUE, parses |-> TRUE, hasPaths |-> TRUE, baseUrl |-> ".",
             paths |-> AtSrc] >>
    ELSE IF root = RootL
    THEN << [exists |-> TRUE, parses |-> FALSE], [exists |-> FALSE] >>
    ELSE << [exists |-> FALSE], [exists |-> FALSE] >>

\* `config.compilerOptions?.baseUrl || '.'` (line 38)
BaseUrl(cfg) == IF "baseUrl" \in DOMAIN cfg /\ cfg.baseUrl # "" THEN cfg.baseUrl ELSE "."

\* one entry of paths (lines 40-52): nothing without a first target
AliasOfEntry(root, baseUrl, entry) ==
    IF entry.targets = <<>> \/ entry.targets[1] = "" THEN <<>>
    ELSE << [key |-> ReplaceTrailingGlob(entry.pattern, "/"),
             value |-> PathResolve(<<root, baseUrl,
                                     ReplaceTrailingGlob(entry.targets[1], "")>>)] >>

\* for each entry in order: `map.set(key, value)`
RECURSIVE SetAll(_, _)
SetAll(m, entries) ==
    IF entries = <<>> THEN m
    ELSE SetAll(MapSet(m, Head(entries).key, Head(entries).value), Tail(entries))

\* the concatenation of a sequence of sequences
RECURSIVE Concat(_)
Concat(ss) == IF ss = <<>> THEN <<>> ELSE Head(ss) \o Concat(Tail(ss))

\* the aliases one config file contributes (lines 39-53)
AliasesOfConfig(root, cfg) ==
    SetAll(<<>>, Concat([i \in 1..Len(cfg.paths) |->
                            AliasOfEntry(root, BaseUrl(cfg), cfg.paths[i])]))

\* the loop over the config files: the first file that exists, parses and has
\* a paths entry ends the loop
RECURSIVE ReadAliases(_, _)
ReadAliases(root, cfgs) ==
    IF cfgs = <<>> THEN <<>>
    ELSE LET cfg == Head(cfgs)
         IN  IF ~cfg.exists THEN ReadAliases(root, Tail(cfgs))
             ELSE IF ~cfg.parses THEN ReadAliases(root, Tail(cfgs))
             ELSE IF ~cfg.hasPaths THEN ReadAliases(root, Tail(cfgs))
             ELSE AliasesOfConfig(root, cfg)

NoCache == [loaded |-> FALSE]

\* the alias table loadPathAliases returns under the given cache
loadPathAliases(cache, root) ==
    IF cache.loaded THEN cache.aliases ELSE ReadAliases(root, ConfigFiles(root))

\* the cache after loadPathAliases ran
CacheAfterLoad(cache, root) ==
    IF cache.loaded THEN cache
    ELSE [loaded |-> TRUE, aliases |-> ReadAliases(root, ConfigFiles(root))]

\* ------------------------------------------------------------------------
\* Import resolution
\* ------------------------------------------------------------------------
NoProject == [given |-> FALSE]

Project(root) == [given |-> TRUE, path |-> root]

\* `projectPath &&`: the argument is given and is not the empty string
HasProject(project) == project.given /\ project.path # ""

\* importPath.startsWith('.') and importPath.startsWith('/')
IsRelative(importPath) == StartsWith(importPath, ".")

IsAbsolute(importPath) == StartsWith(importPath, "/")

IsBare(importPath) == ~IsRelative(importPath) /\ ~IsAbsolute(importPath)

\* the map buildGraph fills (lines 141-150): later files overwrite the keys
\* of earlier ones
RECURSIVE BuildFilePathMap(_, _)
BuildFilePathMap(m, fs) ==
    IF fs = <<>> THEN m
    ELSE LET file == Head(fs)
             absolutePath == PathResolve(<<file.path>>)
             withoutExt == StripExt(absolutePath)
             m1 == MapSet(m, absolutePath, file.path)
             m2 == MapSet(m1, withoutExt, file.path)
             m3 == MapSet(m2, withoutExt \o ".js", file.path)
             m4 == MapSet(m3, withoutExt \o ".jsx", file.path)
         IN  BuildFilePathMap(m4, Tail(fs))

\* the suffixes tried after the exact match (line 625)
Extensions ==
    << "", ".ts", ".tsx", ".js", ".jsx", ".mts", ".cts", "/index.ts", "/index.js" >>

Null == [isNull |-> TRUE]

Some(v) == [isNull |-> FALSE, value |-> v]

Min(S) == CHOOSE k \in S : \A j \in S : k <= j

\* lines 598-599: the alias prefix replaced by its base path
Substitute(alias, importPath) ==
    Some(PathJoin(<<alias.value, SubSeq(importPath, Len(alias.key) + 1, Len(importPath))>>))

AliasHit(aliases, importPath, hits) ==
    IF hits = {} THEN Null ELSE Substitute(aliases[Min(hits)], importPath)

\* the first alias, in map order, whose prefix the specifier starts with
AliasTarget(aliases, importPath) ==
    AliasHit(aliases, importPath,
             {i \in 1..Len(aliases) : StartsWith(importPath, aliases[i].key)})

FirstHit(filePathMap, resolved, hits) ==
    IF hits = {} THEN Null ELSE Some(MapGet(filePathMap, resolved \o Extensions[Min(hits)]))

\* lines 619-632: exact match, then the extension list
LookupFile(filePathMap, resolved) ==
    IF MapHas(filePathMap, resolved) THEN Some(MapGet(filePathMap, resolved))
    ELSE FirstHit(filePathMap, resolved,
                  {i \in 1..Len(Extensions) : MapHas(filePathMap, resolved \o Extensions[i])})

\* lines 604-606: no alias matched, an external package
LookupTarget(filePathMap, target) ==
    IF target.isNull THEN Null ELSE LookupFile(filePathMap, target.value)

\* resolveImportPath, given the alias table in force
resolveImportPath(fromFile, importPath, filePathMap, project, aliases) ==
    IF HasProject(project) /\ IsBare(importPath)
    THEN LookupTarget(filePathMap, AliasTarget(aliases, importPath))
    ELSE IF IsAbsolute(importPath) THEN LookupFile(filePathMap, importPath)
    ELSE IF IsRelative(importPath)
         THEN LookupFile(filePathMap, PathResolve(<<Dirname(fromFile), importPath>>))
    ELSE Null

\* ------------------------------------------------------------------------
\* Edge factories
\* ------------------------------------------------------------------------
\* for each entry in order: `if (!keys.has(key)) { push; keys.add(key) }`
RECURSIVE PushIfAbsent(_, _)
PushIfAbsent(m, entries) ==
    IF entries = <<>> THEN m
    ELSE PushIfAbsent(IF MapHas(m, Head(entries).key) THEN m ELSE Append(m, Head(entries)),
                      Tail(entries))

\* fileIdMap (lines 324-327)
FileIdMap(fs) == [p \in {fs[i].path : i \in 1..Len(fs)} |-> generateNodeId(p)]

ImportEdge(from, to) ==
    [type |-> "import", from |-> from, to |-> to, status |-> "normal"]

ImplementEdge(from, to, symbolName, importPath) ==
    [type |-> "implement", from |-> from, to |-> to, status |-> "normal",
     symbolName |-> symbolName, importPath |-> importPath]

RenderEdge(from, to, position) ==
    [type |-> "render", from |-> from, to |-> to, status |-> "normal",
     position |-> position]

\* `!resolvedPath`: null or the empty string
Falsy(resolvedPath) == resolvedPath.isNull \/ resolvedPath.value = ""

\* the edge one import of a file yields, or none (lines 651-676)
ImportEntry(fromId, toId) ==
    << [key |-> fromId \o "->" \o toId, value |-> ImportEdge(fromId, toId)] >>

ImportTo(file, resolvedPath, fileIdMap) ==
    IF Falsy(resolvedPath) THEN <<>>
    ELSE IF resolvedPath.value \notin DOMAIN fileIdMap THEN <<>>
    ELSE ImportEntry(fileIdMap[file.path], fileIdMap[resolvedPath.value])

ImportCandidate(file, imp, filePathMap, fileIdMap, project, aliases) ==
    ImportTo(file, resolveImportPath(file.path, imp.importPath, filePathMap, project, aliases),
             fileIdMap)

createImportEdges(fs, filePathMap, fileIdMap, project, aliases) ==
    LET ofFile(file) ==
            Concat([j \in 1..Len(file.imports) |->
                       ImportCandidate(file, file.imports[j], filePathMap, fileIdMap,
                                       project, aliases)])
        entries == Concat([i \in 1..Len(fs) |-> ofFile(fs[i])])
    IN  MapValues(PushIfAbsent(<<>>, entries))

ImplementEntry(fromId, toId, interfaceName, importPath) ==
    << [key |-> fromId \o "->" \o toId \o ":" \o interfaceName,
        value |-> ImplementEdge(fromId, toId, interfaceName, importPath)] >>

ImplementTo(file, interfaceName, importPath, resolvedPath, fileIdMap) ==
    IF Falsy(resolvedPath) THEN <<>>
    ELSE IF resolvedPath.value \notin DOMAIN fileIdMap THEN <<>>
    ELSE ImplementEntry(fileIdMap[file.path], fileIdMap[resolvedPath.value],
                        interfaceName, importPath)

\* ImplementCandidate taking an interface without a recorded import path to
\* be declared by the implementing file
ImplementCandidate_SameFile(file, impl, interfaceName, filePathMap, fileIdMap, project, aliases) ==
    IF interfaceName \notin DOMAIN impl.interfacePaths
    THEN ImplementEntry(fileIdMap[file.path], fileIdMap[file.path], interfaceName, "")
    ELSE IF impl.interfacePaths[interfaceName] = "" THEN <<>>
    ELSE ImplementTo(file, interfaceName, impl.interfacePaths[interfaceName],
                     resolveImportPath(file.path, impl.interfacePaths[interfaceName],
                                       filePathMap, project, aliases),
                     fileIdMap)

\* the edge one implemented interface yields, or none (lines 705-734)
ImplementCandidate(file, impl, interfaceName, filePathMap, fileIdMap, project, aliases) ==
    IF interfaceName \notin DOMAIN impl.interfacePaths THEN <<>>
    ELSE IF impl.interfacePaths[interfaceName] = "" THEN <<>>
    ELSE ImplementTo(file, interfaceName, impl.interfacePaths[interfaceName],
                     resolveImportPath(file.path, impl.interfacePaths[interfaceName],
                                       filePathMap, project, aliases),
                     fileIdMap)

createImplementEdges(fs, filePathMap, fileIdMap, project, aliases) ==
    LET ofImpl(file, impl) ==
            Concat([k \in 1..Len(impl.interfaces) |->
                       ImplementCandidate(file, impl, impl.interfaces[k], filePathMap,
                                          fileIdMap, project, aliases)])
        ofFile(file) ==
            IF ~Has(file, "implements") THEN <<>>
            ELSE Concat([j \in 1..Len(file.implements) |-> ofImpl(file, file.implements[j])])
        entries == Concat([i \in 1..Len(fs) |-> ofFile(fs[i])])
    IN  MapValues(PushIfAbsent(<<>>, entries))

\* lines 775-777: the last segment of the import path without a
\* ts/tsx/js/jsx extension
PotentialName(importPath) ==
    LET pathParts == Split(importPath, "/")
        lastPart == pathParts[Len(pathParts)]
        exts == {e \in {".ts", ".tsx", ".js", ".jsx"} : EndsWith(lastPart, e)}
    IN  IF exts = {} THEN lastPart
        ELSE SubSeq(lastPart, 1, Len(lastPart) - Len(CHOOSE e \in exts : TRUE))

\* componentImportMap (lines 764-779)
ComponentImportMap(file) ==
    SetAll(<<>>, [j \in 1..Len(file.imports) |->
                     [key |-> PotentialName(file.imports[j].importPath),
                      value |-> file.imports[j].importPath]])

\* the import path recorded for a rendered component (lines 782-787)
BaseName(render) ==
    IF render.isNamespaced THEN Split(render.componentName, ".")[1] ELSE render.componentName

\* `map.get(key)` as a condition: the key is present and its value is not
\* the empty string
GetsTruthy(m, k) == MapHas(m, k) /\ MapGet(m, k) # ""

\* `componentImportMap.get(baseName) || componentImportMap.get(componentName)`,
\* and the test `!importPath` (lines 786-791)
LookupComponent(componentImportMap, baseName, componentName) ==
    IF GetsTruthy(componentImportMap, baseName)
    THEN Some(MapGet(componentImportMap, baseName))
    ELSE IF GetsTruthy(componentImportMap, componentName)
         THEN Some(MapGet(componentImportMap, componentName))
    ELSE Null

RenderImportPath(file, render) ==
    LookupComponent(ComponentImportMap(file), BaseName(render), render.componentName)

\* RenderEntry with the key `${fromId}->${toId}`, the position left out
RenderEntry_NoPosition(fromId, toId, position) ==
    << [key |-> fromId \o "->" \o toId, value |-> RenderEdge(fromId, toId, position)] >>

\* the edge and its key `${fromId}->${toId}:${render.position}` (lines 804-813)
RenderEntry(fromId, toId, position) ==
    << [key |-> fromId \o "->" \o toId \o ":" \o ToString(position),
        value |-> RenderEdge(fromId, toId, position)] >>

RenderTo(file, render, resolvedPath, fileIdMap) ==
    IF Falsy(resolvedPath) THEN <<>>
    ELSE IF resolvedPath.value \notin DOMAIN fileIdMap THEN <<>>
    ELSE RenderEntry(fileIdMap[file.path], fileIdMap[resolvedPath.value], render.position)

RenderVia(file, render, importPath, filePathMap, fileIdMap, project, aliases) ==
    IF importPath.isNull THEN <<>>
    ELSE RenderTo(file, render,
                  resolveImportPath(file.path, importPath.value, filePathMap, project, aliases),
                  fileIdMap)

\* the edge one JSX usage yields, or none (lines 780-814)
RenderCandidate(file, render, filePathMap, fileIdMap, project, aliases) ==
    RenderVia(file, render, RenderImportPath(file, render), filePathMap, fileIdMap,
              project, aliases)

createRenderEdges(fs, filePathMap, fileIdMap, project, aliases) ==
    LET ofFile(file) ==
            IF ~Has(file, "renders") THEN <<>>
            ELSE Concat([j \in 1..Len(file.renders) |->
                            RenderCandidate(file, file.renders[j], filePathMap, fileIdMap,
                                            project, aliases)])
        entries == Concat([i \in 1..Len(fs) |-> ofFile(fs[i])])
    IN  MapValues(PushIfAbsent(<<>>, entries))

\* ------------------------------------------------------------------------
\* File-level graph
\* ------------------------------------------------------------------------
FileNode(filePath) ==
    [type |-> "hierarchy", level |-> "file", id |-> generateNodeId(filePath),
     path |-> filePath, status |-> "normal"]

\* the key buildFileGraph stores an edge under (lines 332, 339, 346)
FileEdgeKey(edge) ==
    IF edge.type = "render"
    THEN "render:" \o edge.from \o "->" \o edge.to \o ":" \o ToString(edge.position)
    ELSE edge.type \o ":" \o edge.from \o "->" \o edge.to

Keyed(edges) == [i \in 1..Len(edges) |-> [key |-> FileEdgeKey(edges[i]), value |-> edges[i]]]

FileNodes(fs) ==
    SetAll(<<>>, [i \in 1..Len(fs) |->
                     [key |-> generateNodeId(fs[i].path), value |-> FileNode(fs[i].path)]])

\* FileEdges with one import edge per import statement
FileEdges_PerStatement(fs, filePathMap, fileIdMap, edgeTypes, project, aliases) ==
    (IF "import" \in edgeTypes
     THEN Concat([i \in 1..Len(fs) |->
                     Concat([j \in 1..Len(fs[i].imports) |->
                                ImportCandidate(fs[i], fs[i].imports[j], filePathMap,
                                                fileIdMap, project, aliases)])])
     ELSE <<>>)
    \o SetAll(<<>>,
               (IF "implement" \in edgeTypes
                THEN Keyed(createImplementEdges(fs, filePathMap, fileIdMap, project, aliases))
                ELSE <<>>)
               \o (IF "render" \in edgeTypes
                   THEN Keyed(createRenderEdges(fs, filePathMap, fileIdMap, project, aliases))
                   ELSE <<>>))

\* the edges of the requested factories, in the order import, implement,
\* render (lines 329-349)
FileEdges(fs, filePathMap, fileIdMap, edgeTypes, project, aliases) ==
    SetAll(<<>>,
           (IF "import" \in edgeTypes
            THEN Keyed(createImportEdges(fs, filePathMap, fileIdMap, project, aliases))
            ELSE <<>>)
           \o (IF "implement" \in edgeTypes
               THEN Keyed(createImplementEdges(fs, filePathMap, fileIdMap, project, aliases))
               ELSE <<>>)
           \o (IF "render" \in edgeTypes
               THEN Keyed(createRenderEdges(fs, filePathMap, fileIdMap, project, aliases))
               ELSE <<>>))

buildFileGraph(fs, filePathMap, edgeTypes, project, aliases) ==
    [nodes |-> MapValues(FileNodes(fs)),
     edges |-> MapValues(FileEdges(fs, filePathMap, FileIdMap(fs), edgeTypes, project, aliases))]

\* ------------------------------------------------------------------------
\* Hierarchy graph
\* ------------------------------------------------------------------------
\* a field of a record as a condition: present and not the empty string
Truthy(r, field) == Has(r, field) /\ r[field] # ""

extractHierarchyKey(hierarchy, level) ==
    IF level = "architecture"
    THEN IF Truthy(hierarchy, "architecture") THEN Some(hierarchy.architecture) ELSE Null
    ELSE IF level = "module"
    THEN IF Truthy(hierarchy, "module") THEN Some(hierarchy.module) ELSE Null
    ELSE IF level = "component"
    THEN IF Truthy(hierarchy, "module") /\ Truthy(hierarchy, "component")
         THEN Some(hierarchy.module \o "/" \o hierarchy.component)
         ELSE IF Truthy(hierarchy, "module") THEN Some(hierarchy.module) ELSE Null
    ELSE Null

\* `${level}:${key}`
ParentId(level, key) == level \o ":" \o key

ParentNode(level, key) ==
    [type |-> "hierarchy", level |-> level, id |-> ParentId(level, key),
     path |-> key, status |-> "normal"]

\* the grouping key of one file at the requested level (lines 401-402)
KeyOf(file, level) == extractHierarchyKey(detectHierarchy(file.path), level)

\* fileToParent (lines 399-405): the parent id of every file that has a key
FileToParent(fs, level) ==
    [p \in {fs[i].path : i \in {k \in 1..Len(fs) : ~KeyOf(fs[k], level).isNull}} |->
        ParentId(level, extractHierarchyKey(detectHierarchy(p), level).value)]

\* ParentEntry sending a file without a key to the root module
ParentEntry_Promote(level, key) ==
    IF key.isNull
    THEN << [key |-> ParentId("module", "__root__"),
             value |-> ParentNode("module", "__root__")] >>
    ELSE << [key |-> ParentId(level, key.value), value |-> ParentNode(level, key.value)] >>

\* the parent node one file asks for, or none when it has no key
\* (lines 403-416)
ParentEntry(level, key) ==
    IF key.isNull THEN <<>>
    ELSE << [key |-> ParentId(level, key.value), value |-> ParentNode(level, key.value)] >>

\* parentNodes (lines 396-417): a parent is created the first time its id is
\* met
ParentNodes(fs, level) ==
    PushIfAbsent(<<>>, Concat([i \in 1..Len(fs) |-> ParentEntry(level, KeyOf(fs[i], level))]))

\* AggregateEntry without the test of line 434
AggregateEntry_KeepSelf(fromParent, toParent) ==
    << [key |-> fromParent \o "->" \o toParent, value |-> ImportEdge(fromParent, toParent)] >>

\* lines 432-440: the edge between two parents, unless they are the same
AggregateEntry(fromParent, toParent) ==
    IF fromParent = toParent THEN <<>>
    ELSE << [key |-> fromParent \o "->" \o toParent,
             value |-> ImportEdge(fromParent, toParent)] >>

AggregateTo(file, resolvedPath, fileToParent) ==
    IF Falsy(resolvedPath) THEN <<>>
    ELSE IF file.path \notin DOMAIN fileToParent THEN <<>>
    ELSE IF resolvedPath.value \notin DOMAIN fileToParent THEN <<>>
    ELSE AggregateEntry(fileToParent[file.path], fileToParent[resolvedPath.value])

\* the aggregated edge one import yields, or none (lines 423-441)
AggregateCandidate(file, imp, fileToParent, filePathMap, project, aliases) ==
    AggregateTo(file, resolveImportPath(file.path, imp.importPath, filePathMap, project, aliases),
                fileToParent)

AggregateOfFile(file, fileToParent, filePathMap, project, aliases) ==
    Concat([j \in 1..Len(file.imports) |->
               AggregateCandidate(file, file.imports[j], fileToParent, filePathMap,
                                  project, aliases)])

\* AggregatedEdges without the test of line 437: one edge per import
AggregatedEdges_PerImport(fs, fileToParent, filePathMap, project, aliases) ==
    Concat([i \in 1..Len(fs) |->
               AggregateOfFile(fs[i], fileToParent, filePathMap, project, aliases)])

\* aggregatedEdges (lines 418-444): an edge is created the first time its
\* key `${fromParent}->${toParent}` is met
AggregatedEdges(fs, fileToParent, filePathMap, project, aliases) ==
    PushIfAbsent(<<>>, Concat([i \in 1..Len(fs) |->
                                  AggregateOfFile(fs[i], fileToParent, filePathMap,
                                                  project, aliases)]))

buildHierarchyGraph(fs, filePathMap, level, project, aliases) ==
    [nodes |-> MapValues(ParentNodes(fs, level)),
     edges |-> MapValues(AggregatedEdges(fs, FileToParent(fs, level), filePathMap,
                                         project, aliases))]

\* ------------------------------------------------------------------------
\* Interface graph
\* ------------------------------------------------------------------------
\* `${typeDef.kind}:${typeDef.name}-${generateShortHash(file.path)}`
TypeNodeId(typeDef, filePath) ==
    typeDef.kind \o ":" \o typeDef.name \o "-" \o generateShortHash(filePath)

TypeNode(typeDef, filePath) ==
    [type |-> "abstract", kind |-> typeDef.kind, id |-> TypeNodeId(typeDef, filePath),
     path |-> filePath, name |-> typeDef.name, isExported |-> typeDef.isExported,
     status |-> "normal"]

TypeDefsOf(file) == IF Has(file, "typeDefinitions") THEN file.typeDefinitions ELSE <<>>

OptList(typeDef, field) == IF Has(typeDef, field) THEN typeDef[field] ELSE <<>>

\* the edges one type definition yields (lines 490-546)
TypeEdgeCandidates(typeDef, typeNameToId) ==
    LET fromId == MapGet(typeNameToId, typeDef.name)
        link(tag, type, names, skipSelf) ==
            Concat([k \in 1..Len(names) |->
                IF ~MapHas(typeNameToId, names[k]) THEN <<>>
                ELSE LET toId == MapGet(typeNameToId, names[k])
                     IN  IF skipSelf /\ toId = fromId THEN <<>>
                         ELSE << [key |-> tag \o ":" \o fromId \o "->" \o toId,
                                  value |-> [type |-> type, from |-> fromId, to |-> toId,
                                             status |-> "normal", symbolName |-> names[k]]] >>])
    IN  link("extends", "implement", OptList(typeDef, "extends"), FALSE)
        \o link("implements", "implement", OptList(typeDef, "implements"), FALSE)
        \o link("uses", "use", OptList(typeDef, "references"), TRUE)

buildInterfaceGraph(fs) ==
    LET defsOf(file) ==
            [j \in 1..Len(TypeDefsOf(file)) |->
                [def |-> TypeDefsOf(file)[j], path |-> file.path]]
        defs == Concat([i \in 1..Len(fs) |-> defsOf(fs[i])])
        nodes == SetAll(<<>>, [i \in 1..Len(defs) |->
                                  [key |-> TypeNodeId(defs[i].def, defs[i].path),
                                   value |-> TypeNode(defs[i].def, defs[i].path)]])
        typeNameToId == SetAll(<<>>, [i \in 1..Len(defs) |->
                                         [key |-> defs[i].def.name,
                                          value |-> TypeNodeId(defs[i].def, defs[i].path)]])
        edges == PushIfAbsent(<<>>, Concat([i \in 1..Len(defs) |->
                                               TypeEdgeCandidates(defs[i].def, typeNameToId)]))
    IN  [nodes |-> MapValues(nodes), edges |-> MapValues(edges)]

\* ------------------------------------------------------------------------
\* View filters
\* ------------------------------------------------------------------------
EmptyGraph == [nodes |-> <<>>, edges |-> <<>>]

NodeIds(g) == {g.nodes[i].id : i \in 1..Len(g.nodes)}

\* the identity of an edge in a diff: its kind and its ends
EdgeIdentities(edges) == {<<edges[i].type, edges[i].from, edges[i].to>> : i \in 1..Len(edges)}

\* the file filter of buildFocusedGraph (lines 191-216)
IsFocusFile(file, level, focusPath) ==
    LET hierarchy == detectHierarchy(file.path)
    IN  IF level = "architecture"
        THEN Has(hierarchy, "architecture") /\ hierarchy.architecture = focusPath
        ELSE IF level = "module"
        THEN Has(hierarchy, "module") /\ hierarchy.module = focusPath
        ELSE IF level = "component"
        THEN IF Truthy(hierarchy, "module") /\ Truthy(hierarchy, "component")
             THEN \/ hierarchy.module \o "/" \o hierarchy.component = focusPath
                  \/ hierarchy.component = focusPath
             ELSE Has(hierarchy, "module") /\ hierarchy.module = focusPath
        ELSE IF level = "file"
        THEN Includes(file.path, focusPath) \/ EndsWith(file.path, focusPath)
        ELSE IF level = "interface"
        THEN \E j \in 1..Len(TypeDefsOf(file)) : TypeDefsOf(file)[j].name = focusPath
        ELSE FALSE

\* buildFocusedGraph falling back to every input file when none matches
buildFocusedGraph_Whole(fs, filePathMap, level, edgeTypes, focusPath, internalLevel, project, aliases) ==
    LET focusFiles == SelectSeq(fs, LAMBDA file : IsFocusFile(file, level, focusPath))
        used == IF Len(focusFiles) = 0 THEN fs ELSE focusFiles
    IN  IF internalLevel = "interface" THEN buildInterfaceGraph(used)
        ELSE buildFileGraph(used, filePathMap, edgeTypes, project, aliases)

\* buildFocusedGraph building from every input file once one matches
buildFocusedGraph_AllFiles(fs, filePathMap, level, edgeTypes, focusPath, internalLevel, project, aliases) ==
    LET focusFiles == SelectSeq(fs, LAMBDA file : IsFocusFile(file, level, focusPath))
    IN  IF Len(focusFiles) = 0 THEN EmptyGraph
        ELSE IF internalLevel = "interface" THEN buildInterfaceGraph(fs)
        ELSE buildFileGraph(fs, filePathMap, edgeTypes, project, aliases)

buildFocusedGraph(fs, filePathMap, level, edgeTypes, focusPath, internalLevel, project, aliases) ==
    LET focusFiles == SelectSeq(fs, LAMBDA file : IsFocusFile(file, level, focusPath))
    IN  IF Len(focusFiles) = 0 THEN EmptyGraph
        ELSE IF internalLevel = "interface" THEN buildInterfaceGraph(focusFiles)
        ELSE buildFileGraph(focusFiles, filePathMap, edgeTypes, project, aliases)

\* the seed test of filterGraphByNeighbors (lines 248-254)
IsFocusNode(node, focusPath) ==
    \/ node.path = focusPath
    \/ EndsWith(node.path, focusPath)
    \/ Includes(node.path, focusPath)

\* one round of the breadth-first loop (lines 274-295): included ids and the
\* frontier after `rounds` more rounds
\* Expand following the edges from a node to its dependencies only
RECURSIVE Expand_OutgoingOnly(_, _, _, _)
Expand_OutgoingOnly(edges, included, currentLevel, rounds) ==
    IF rounds <= 0 THEN included
    ELSE LET deps == {edges[i].to : i \in {k \in 1..Len(edges) : edges[k].from \in currentLevel}}
             nextLevel == deps \ included
         IN  Expand_OutgoingOnly(edges, included \cup nextLevel, nextLevel, rounds - 1)

RECURSIVE Expand(_, _, _, _)
Expand(edges, included, currentLevel, rounds) ==
    IF rounds <= 0 THEN included
    ELSE LET deps == {edges[i].to : i \in {k \in 1..Len(edges) : edges[k].from \in currentLevel}}
             dependents == {edges[i].from : i \in {k \in 1..Len(edges) : edges[k].to \in currentLevel}}
             nextLevel == (deps \cup dependents) \ included
         IN  Expand(edges, included \cup nextLevel, nextLevel, rounds - 1)

\* InducedGraph keeping an edge as soon as one of its ends is included
InducedGraph_AnyEnd(g, includedNodeIds) ==
    [nodes |-> SelectSeq(g.nodes, LAMBDA node : node.id \in includedNodeIds),
     edges |-> SelectSeq(g.edges, LAMBDA edge :
                            edge.from \in includedNodeIds \/ edge.to \in includedNodeIds)]

\* lines 296-303: the included nodes and the edges between them
InducedGraph(g, includedNodeIds) ==
    [nodes |-> SelectSeq(g.nodes, LAMBDA node : node.id \in includedNodeIds),
     edges |-> SelectSeq(g.edges, LAMBDA edge :
                            edge.from \in includedNodeIds /\ edge.to \in includedNodeIds)]

\* NeighborsOf searching one round at least
NeighborsOf_AtLeastOne(g, focusNodeIds, neighborDepth) ==
    IF focusNodeIds = {} THEN EmptyGraph
    ELSE InducedGraph(g, Expand(g.edges, focusNodeIds, focusNodeIds,
                                IF neighborDepth < 1 THEN 1 ELSE neighborDepth))

\* lines 256-295: nothing without a focus node, else the breadth-first search
NeighborsOf(g, focusNodeIds, neighborDepth) ==
    IF focusNodeIds = {} THEN EmptyGraph
    ELSE InducedGraph(g, Expand(g.edges, focusNodeIds, focusNodeIds, neighborDepth))

\* focusNodes (lines 248-254), as ids
FocusNodeIds(g, focusPath) ==
    {g.nodes[i].id : i \in {k \in 1..Len(g.nodes) : IsFocusNode(g.nodes[k], focusPath)}}

filterGraphByNeighbors(g, focusPath, neighborDepth) ==
    NeighborsOf(g, FocusNodeIds(g, focusPath), neighborDepth)

\* ------------------------------------------------------------------------
\* buildGraph
\* ------------------------------------------------------------------------
\* `options?.field ?? dflt`
Opt(opts, field, dflt) == IF Has(opts, field) THEN opts[field] ELSE dflt

\* `mode === m && focusPath`
HasFocus(opts) == Has(opts, "focusPath") /\ opts.focusPath # ""

\* RequestedEdgeTypes defaulting to every factory
RequestedEdgeTypes_All(opts) == Opt(opts, "edgeTypes", {"import", "implement", "render"})

\* `options?.edgeTypes ?? ['import']` (line 135)
RequestedEdgeTypes(opts) == Opt(opts, "edgeTypes", {"import"})

\* GraphAtLevel aggregating imports only when import edges are requested
GraphAtLevel_IfRequested(fs, filePathMap, level, edgeTypes, project, aliases) ==
    IF level = "file" THEN buildFileGraph(fs, filePathMap, edgeTypes, project, aliases)
    ELSE IF level = "interface" THEN buildInterfaceGraph(fs)
    ELSE IF "import" \in edgeTypes
    THEN buildHierarchyGraph(fs, filePathMap, level, project, aliases)
    ELSE [nodes |-> buildHierarchyGraph(fs, filePathMap, level, project, aliases).nodes,
          edges |-> <<>>]

\* the graph of the requested level (lines 160-173)
GraphAtLevel(fs, filePathMap, level, edgeTypes, project, aliases) ==
    IF level = "file" THEN buildFileGraph(fs, filePathMap, edgeTypes, project, aliases)
    ELSE IF level = "interface" THEN buildInterfaceGraph(fs)
    ELSE buildHierarchyGraph(fs, filePathMap, level, project, aliases)

\* lines 151-173, once the options are read and the path map is built
BuildWith(fs, opts, filePathMap, level, edgeTypes, project, aliases) ==
    IF Opt(opts, "mode", "global") = "focused" /\ HasFocus(opts)
    THEN buildFocusedGraph(fs, filePathMap, level, edgeTypes, opts.focusPath,
                           Opt(opts, "internalLevel", "file"), project, aliases)
    ELSE IF Opt(opts, "mode", "global") = "neighbors" /\ HasFocus(opts)
    THEN filterGraphByNeighbors(
             GraphAtLevel(fs, filePathMap, level, edgeTypes, project, aliases),
             opts.focusPath, Opt(opts, "neighborDepth", 1))
    ELSE GraphAtLevel(fs, filePathMap, level, edgeTypes, project, aliases)

buildGraph(fs, opts, project, aliases) ==
    BuildWith(fs, opts, BuildFilePathMap(<<>>, fs), Opt(opts, "level", "file"),
              RequestedEdgeTypes(opts), project, aliases)

\* ------------------------------------------------------------------------
\* buildDiff
\* ------------------------------------------------------------------------
\* new Map(graph.nodes.map(n => [n.id, n])) (lines 830-831)
NodeMap(g) ==
    SetAll(<<>>, [i \in 1..Len(g.nodes) |-> [key |-> g.nodes[i].id, value |-> g.nodes[i]]])

\* `${e.type}:${e.from}->${e.to}`
DiffEdgeKey(e) == e.type \o ":" \o e.from \o "->" \o e.to

\* new Map(graph.edges.map(e => [key, e])) (lines 832-833)
EdgeMap(g) ==
    SetAll(<<>>, [i \in 1..Len(g.edges) |->
                     [key |-> DiffEdgeKey(g.edges[i]), value |-> g.edges[i]]])

\* `{ ...x, status }` for every entry, in order
Statused(entries, status) ==
    [i \in 1..Len(entries) |-> [entries[i].value EXCEPT !.status = status]]

\* the entries of m whose key the other map lacks (lines 837-859)
Absent(m, other, status) ==
    Statused(SelectSeq(m, LAMBDA en : ~MapHas(other, en.key)), status)

\* lines 865-873: nodes of both graphs whose path was modified
ModifiedNodes(oldNodeMap, newNodeMap, modifiedPaths) ==
    Statused(SelectSeq(newNodeMap, LAMBDA en :
                          MapHas(oldNodeMap, en.key) /\ en.value.path \in modifiedPaths),
             "modified")

\* lines 877-881: the node of that id exists in the new graph, its path is
\* not the empty string and was modified
PathModified(newNodeMap, id, modifiedPaths) ==
    /\ MapHas(newNodeMap, id)
    /\ MapGet(newNodeMap, id).path # ""
    /\ MapGet(newNodeMap, id).path \in modifiedPaths

\* ModifiedEdges looking at the source end of an edge only
ModifiedEdges_FromOnly(oldEdgeMap, newEdgeMap, newNodeMap, modifiedPaths) ==
    Statused(SelectSeq(newEdgeMap, LAMBDA en :
                          /\ MapHas(oldEdgeMap, en.key)
                          /\ PathModified(newNodeMap, en.value.from, modifiedPaths)),
             "modified")

\* lines 875-885: edges of both graphs with a modified end
ModifiedEdges(oldEdgeMap, newEdgeMap, newNodeMap, modifiedPaths) ==
    Statused(SelectSeq(newEdgeMap, LAMBDA en :
                          /\ MapHas(oldEdgeMap, en.key)
                          /\ \/ PathModified(newNodeMap, en.value.from, modifiedPaths)
                             \/ PathModified(newNodeMap, en.value.to, modifiedPaths)),
             "modified")

\* the test of line 923
IsImportEdge_AnyKind(edge) == TRUE

\* the test of line 923
IsImportEdge(edge) == edge.type = "import"

\* Set.prototype.add on an insertion-ordered set
SetAdd(s, x) == IF x \in Range(s) THEN s ELSE Append(s, x)

\* lines 924-927
AddNeighbor(adjList, from, to) ==
    IF MapHas(adjList, from) THEN MapSet(adjList, from, SetAdd(MapGet(adjList, from), to))
    ELSE Append(adjList, [key |-> from, value |-> <<to>>])

\* adjList (lines 921-929)
RECURSIVE AdjList(_, _)
AdjList(adjList, edges) ==
    IF edges = <<>> THEN adjList
    ELSE AdjList(IF IsImportEdge(Head(edges))
                 THEN AddNeighbor(adjList, Head(edges).from, Head(edges).to)
                 ELSE adjList,
                 Tail(edges))

\* visited, inStack, cycles and the path of the running traversal
\* (lines 931-933)
NoSearch == [visited |-> {}, inStack |-> {}, path |-> <<>>, cycles |-> <<>>]

\* `adjList.get(node) || new Set()`
Neighbors(adjList, node) == IF MapHas(adjList, node) THEN MapGet(adjList, node) ELSE <<>>

\* lines 935-937
Enter(st, node) ==
    [st EXCEPT !.visited = @ \cup {node}, !.inStack = @ \cup {node}, !.path = Append(@, node)]

\* lines 950-951
Leave(st, node) ==
    [st EXCEPT !.inStack = @ \ {node}, !.path = SubSeq(@, 1, Len(@) - 1)]

\* path.indexOf(neighbor), 1-based
PathIndexOf(path, node) ==
    CHOOSE i \in 1..Len(path) : path[i] = node /\ \A j \in 1..(i - 1) : path[j] # node

\* FoundCycle recording the slice of the path alone, the loop left open
FoundCycle_Open(st, neighbor) ==
    [st EXCEPT !.cycles =
        Append(@, SubSeq(st.path, PathIndexOf(st.path, neighbor), Len(st.path)))]

\* lines 945-947
FoundCycle(st, neighbor) ==
    [st EXCEPT !.cycles =
        Append(@, SubSeq(st.path, PathIndexOf(st.path, neighbor), Len(st.path))
                  \o <<neighbor>>)]

\* dfs (lines 934-952) and its loop over the neighbors
RECURSIVE dfs(_, _, _)
RECURSIVE Visit(_, _, _)
RECURSIVE VisitNeighbors(_, _, _)
dfs(adjList, node, st) ==
    Leave(VisitNeighbors(adjList, Neighbors(adjList, node), Enter(st, node)), node)

Visit(adjList, neighbor, st) ==
    IF neighbor \notin st.visited THEN dfs(adjList, neighbor, st)
    ELSE IF neighbor \in st.inStack THEN FoundCycle(st, neighbor)
    ELSE st

VisitNeighbors(adjList, neighbors, st) ==
    IF neighbors = <<>> THEN st
    ELSE VisitNeighbors(adjList, Tail(neighbors), Visit(adjList, Head(neighbors), st))

\* lines 953-957
RECURSIVE SearchFrom(_, _, _)
SearchFrom(adjList, keys, st) ==
    IF keys = <<>> THEN st
    ELSE SearchFrom(adjList, Tail(keys),
                    IF Head(keys) \notin st.visited THEN dfs(adjList, Head(keys), st) ELSE st)

SearchAll(adjList) ==
    SearchFrom(adjList, [i \in 1..Len(adjList) |-> adjList[i].key], NoSearch)

\* lines 958-961
CycleInfo(st) == [hasCycle |-> Len(st.cycles) > 0, cycles |-> st.cycles]

detectCircularDependenciesWithPaths(edges) == CycleInfo(SearchAll(AdjList(<<>>, edges)))

\* result (lines 888-909)
DiffResult(added, removed, modified, circularInfo) ==
    [added |-> added, removed |-> removed, modified |-> modified,
     summary |-> [addedNodes |-> Len(added.nodes), removedNodes |-> Len(removed.nodes),
                  addedEdges |-> Len(added.edges), removedEdges |-> Len(removed.edges),
                  hasCircularDependency |-> circularInfo.hasCycle]
                 @@ (IF Len(circularInfo.cycles) > 0
                     THEN [circularPaths |-> circularInfo.cycles] ELSE <<>>)]

\* the nodes and edges of old that new lacks (lines 848-859)
Removed_AllOfOld(oldNodeMap, newNodeMap, oldEdgeMap, newEdgeMap) ==
    [nodes |-> Statused(oldNodeMap, "removed"), edges |-> Statused(oldEdgeMap, "removed")]

\* the nodes and edges of old that new lacks (lines 848-859)
Removed(oldNodeMap, newNodeMap, oldEdgeMap, newEdgeMap) ==
    [nodes |-> Absent(oldNodeMap, newNodeMap, "removed"),
     edges |-> Absent(oldEdgeMap, newEdgeMap, "removed")]

\* the nodes and edges of new that old lacks (lines 835-846)
Added_AllOfNew(oldNodeMap, newNodeMap, oldEdgeMap, newEdgeMap) ==
    [nodes |-> Statused(newNodeMap, "added"), edges |-> Statused(newEdgeMap, "added")]

\* the nodes and edges of new that old lacks (lines 835-846)
Added(oldNodeMap, newNodeMap, oldEdgeMap, newEdgeMap) ==
    [nodes |-> Absent(newNodeMap, oldNodeMap, "added"),
     edges |-> Absent(newEdgeMap, oldEdgeMap, "added")]

\* lines 860-885
Modified(oldNodeMap, newNodeMap, oldEdgeMap, newEdgeMap, modifiedPaths) ==
    [nodes |-> ModifiedNodes(oldNodeMap, newNodeMap, modifiedPaths),
     edges |-> ModifiedEdges(oldEdgeMap, newEdgeMap, newNodeMap, modifiedPaths)]

DiffOfMaps(oldNodeMap, newNodeMap, oldEdgeMap, newEdgeMap, modifiedPaths, newEdges) ==
    DiffResult(Added(oldNodeMap, newNodeMap, oldEdgeMap, newEdgeMap),
               Removed(oldNodeMap, newNodeMap, oldEdgeMap, newEdgeMap),
               Modified(oldNodeMap, newNodeMap, oldEdgeMap, newEdgeMap, modifiedPaths),
               detectCircularDependenciesWithPaths(newEdges))

buildDiff(old, new, chg) ==
    DiffOfMaps(NodeMap(old), NodeMap(new), EdgeMap(old), EdgeMap(new),
               Range(chg.modified), new.edges)

\* ------------------------------------------------------------------------
\* The import paths a build resolves
\* ------------------------------------------------------------------------
\* every import path the requested factories hand to resolveImportPath
FileGraphSpecs(fs, edgeTypes) ==
    LET importsOf(file) == {file.imports[j].importPath : j \in 1..Len(file.imports)}
        implsOf(file) ==
            IF ~Has(file, "implements") THEN {}
            ELSE UNION {{file.implements[j].interfacePaths[n] :
                            n \in Range(file.implements[j].interfaces)
                                  \cap DOMAIN file.implements[j].interfacePaths} \ {""}
                        : j \in 1..Len(file.implements)}
        rendersOf(file) ==
            IF ~Has(file, "renders") THEN {}
            ELSE {RenderImportPath(file, file.renders[j]).value :
                     j \in {k \in 1..Len(file.renders) :
                               ~RenderImportPath(file, file.renders[k]).isNull}}
    IN  UNION {(IF "import" \in edgeTypes THEN importsOf(fs[i]) ELSE {})
               \cup (IF "implement" \in edgeTypes THEN implsOf(fs[i]) ELSE {})
               \cup (IF "render" \in edgeTypes THEN rendersOf(fs[i]) ELSE {})
               : i \in 1..Len(fs)}

\* every import path one call of buildGraph hands to resolveImportPath
ResolvedSpecs(fs, opts) ==
    LET level == Opt(opts, "level", "file")
        edgeTypes == RequestedEdgeTypes(opts)
        mode == Opt(opts, "mode", "global")
        focusFiles == SelectSeq(fs, LAMBDA file : IsFocusFile(file, level, opts.focusPath))
    IN  IF mode = "focused" /\ HasFocus(opts)
        THEN IF Opt(opts, "internalLevel", "file") = "interface" THEN {}
             ELSE FileGraphSpecs(focusFiles, edgeTypes)
        ELSE IF level = "file" THEN FileGraphSpecs(fs, edgeTypes)
        ELSE IF level = "interface" THEN {}
        ELSE FileGraphSpecs(fs, {"import"})

\* loadPathAliases runs when a bare specifier is resolved with a project root
LoadsAliases(fs, opts, project) ==
    HasProject(project) /\ \E s \in ResolvedSpecs(fs, opts) : IsBare(s)

\* ------------------------------------------------------------------------
\* Inputs: the parsed projects
\* ------------------------------------------------------------------------
Imp(importPath) == [importPath |-> importPath, isTypeOnly |-> FALSE, isDynamic |-> FALSE]

TypeImp(importPath) == [importPath |-> importPath, isTypeOnly |-> TRUE, isDynamic |-> FALSE]

DynImp(importPath) == [importPath |-> importPath, isTypeOnly |-> FALSE, isDynamic |-> TRUE]

File(path, imports) == [path |-> path, imports |-> imports]

\* the relative specifier that leads from file p to file q
RelSpec(p, q) ==
    LET d == Split(Dirname(p), "/")
        e == Split(Dirname(q), "/")
        ks == {k \in 0..Len(d) : k <= Len(e) /\ SubSeq(d, 1, k) = SubSeq(e, 1, k)}
        common == CHOOSE k \in ks : \A j \in ks : j <= k
        ups == [i \in 1..(Len(d) - common) |-> ".."]
    IN  Join((IF ups = <<>> THEN <<".">> ELSE ups)
             \o SubSeq(Split(q, "/"), common + 1, Len(Split(q, "/"))), "/")

\* all sequences over S of length at most n
RECURSIVE SeqsUpTo(_, _)
SeqsUpTo(S, n) ==
    IF n = 0 THEN {<<>>}
    ELSE LET shorter == SeqsUpTo(S, n - 1)
         IN  shorter \cup {Append(s, x) : s \in shorter, x \in S}

SpecMissing == "./missing"

SpecReact == "react"

\* the file lists (ordered) the import projects are made of
Layouts ==
    { <<P_login, P_session>>, <<P_login, P_repo>>, <<P_repo, P_card>>,
      <<P_login, P_tool>>, <<P_main, P_login>>, <<P_webLogin, P_webRepo>>,
      <<P_webLogin, P_apiRepo>>, <<P_login, P_webLogin>>,
      <<P_session, P_login, P_loginJs>>, <<P_session, P_loginJs, P_login>>,
      <<P_login, P_session, P_repo>> }

\* what the first file of a layout may import: the second file with and
\* without its extension, a missing file, the third file
SubjectMenu(layout) ==
    IF Len(layout) = 2
    THEN { Imp(RelSpec(layout[1], layout[2])), TypeImp(StripExt(RelSpec(layout[1], layout[2]))),
           Imp(SpecMissing) }
    ELSE { TypeImp(StripExt(RelSpec(layout[1], layout[2]))),
           DynImp(StripExt(RelSpec(layout[1], layout[3]))), Imp(SpecMissing) }

\* what another file of a layout may import: nothing, or the next file of the
\* layout (the first file after the last)
OtherImports(layout, i) ==
    {<<>>, << Imp(StripExt(RelSpec(layout[i], layout[(i % Len(layout)) + 1]))) >>}

ProjectsOf(layout) ==
    IF Len(layout) = 2
    THEN { << File(layout[1], a), File(layout[2], b) >> :
             a \in SeqsUpTo(SubjectMenu(layout), MaxImports), b \in OtherImports(layout, 2) }
    ELSE { << File(layout[1], a), File(layout[2], b), File(layout[3], c) >> :
             a \in SeqsUpTo(SubjectMenu(layout), MaxImports), b \in OtherImports(layout, 2),
             c \in OtherImports(layout, 3) }

ImportProjects == UNION { ProjectsOf(layout) : layout \in Layouts }

\* projects that use the "@/" alias of the root's tsconfig.json
AliasProjects ==
    { << File(P_session, imps), File(P_login, <<>>), File(P_repo, <<>>) >> :
        imps \in SeqsUpTo({Imp("@/auth/login"), Imp("@/users/repo.ts"),
                           Imp("@/missing"), Imp(SpecReact)}, MaxImports) \ {<<>>} }

\* the interfaces a class of login.ts may implement, and the import path the
\* parser recorded for each (none for ILocal, declared in login.ts itself)
InterfacePathOf ==
    [n \in {"IAuth", "ILogger", "IRepo", "IExternal"} |->
        CASE n = "IAuth" -> "./session"
          [] n = "ILogger" -> "./session.ts"
          [] n = "IRepo" -> "../users/repo"
          [] n = "IExternal" -> "some-lib"]

InterfaceNames == {"IAuth", "ILogger", "IRepo", "IExternal", "ILocal"}

Implementation(className, interfaces) ==
    [className |-> className, interfaces |-> interfaces,
     interfacePaths |-> [n \in Range(interfaces) \cap DOMAIN InterfacePathOf |-> InterfacePathOf[n]]]

ImplementProjects ==
    { << File(P_login, imports) @@ [implements |-> impls], File(P_session, <<>>), File(P_repo, <<>>) >> :
        imports \in { <<>>, <<Imp("./session"), Imp("../users/repo")>> },
        impls \in { <<Implementation("AuthService", ifs)>> :
                       ifs \in SeqsUpTo(InterfaceNames, MaxInterfaces) \ {<<>>} }
                  \cup { <<Implementation("AuthService", <<n>>), Implementation("Other", <<m>>)>> :
                           n \in {"IAuth", "ILocal"}, m \in {"IAuth", "ILogger"} } }

\* the JSX usages of card.tsx
Render(componentName, position, isNamespaced) ==
    [componentName |-> componentName, position |-> position, isNamespaced |-> isNamespaced]

RenderMenu ==
    { Render("repo", p, FALSE) : p \in 0..1 }
    \cup { Render("session", p, FALSE) : p \in 0..1 }
    \cup { Render("repo.Item", 1, TRUE), Render("div", 0, FALSE) }

RenderProjects ==
    { << File(P_card, <<Imp("../repo"), Imp("../../auth/session.ts")>>)
           @@ [renders |-> renders],
         File(P_repo, <<>>), File(P_session, <<>>) >> :
        renders \in SeqsUpTo(RenderMenu, MaxRenders) \ {<<>>} }

\* card.tsx rendering three children, each one of repo.ts, session.ts and
\* login.ts, at the positions 0, 1, 2 of the JSX tree
RenderTripleProjects ==
    { << File(P_card, <<Imp("../repo"), Imp("../../auth/session.ts"),
                        Imp("../../auth/login")>>)
           @@ [renders |-> <<Render(a, 0, FALSE), Render(b, 1, FALSE), Render(c, 2, FALSE)>>],
         File(P_repo, <<>>), File(P_session, <<>>), File(P_login, <<>>) >> :
        a \in {"repo", "session", "login"},
        b \in {"repo", "session", "login"},
        c \in {"repo", "session", "login"} }

\* session.ts importing login by its bare name or by a literal file name,
\* with login.ts and login.js both present, in either order
TwinProjects ==
    { << File(P_session, <<Imp(spec)>>), File(twins[1], <<>>), File(twins[2], <<>>) >> :
        spec \in {"./login", "./login.ts", "./login.js"},
        twins \in {<<P_login, P_loginJs>>, <<P_loginJs, P_login>>} }

\* the type definitions of login.ts and session.ts
TypeDef(kind, name) == [kind |-> kind, name |-> name, isExported |-> TRUE]

TypeDefMenu ==
    { TypeDef("class", "AuthService") @@ [implements |-> <<"IAuth">>, references |-> <<"Session", "AuthService">>],
      TypeDef("class", "AuthService") @@ [extends |-> <<"Base">>, implements |-> <<"IAuth", "IAuth">>],
      TypeDef("interface", "IAuth") @@ [extends |-> <<"Session">>],
      TypeDef("type", "Session") @@ [references |-> <<"IAuth", "Unknown">>],
      TypeDef("enum", "Role") }

TypeProjects ==
    { << File(P_login, <<Imp("./session")>>) @@ [typeDefinitions |-> defs],
         File(P_session, <<>>) @@ [typeDefinitions |-> << TypeDef("interface", "IAuth"),
                                      TypeDef("type", "Session") @@ [references |-> <<"Role">>] >>] >> :
        defs \in SeqsUpTo(TypeDefMenu, MaxTypeDefs) \ {<<>>} }

Projects ==
    ImportProjects \cup ImplementProjects \cup RenderProjects \cup RenderTripleProjects
    \cup TwinProjects \cup TypeProjects

\* the projects under the roots whose tsconfig.json does not parse, importing
\* through "@/"
ConfigSessions ==
    { << << File(P_apiRepo, imps), File(P_apiLogin, <<>>) >>, Project(RootA) >> :
        imps \in { <<Imp("@/auth/login")>>,
                   <<Imp(SpecReact), Imp("@/auth/login.ts")>> } }
    \cup { << << File(P_tool, <<Imp("@/tool"), Imp(SpecReact)>>) >>, Project(RootL) >> }

\* a session: the parsed files and the project root the caller passes, if any
Sessions ==
    (Projects \X {NoProject})
    \cup (AliasProjects \X {NoProject, Project(RootP)})
    \cup ConfigSessions

\* ------------------------------------------------------------------------
\* Inputs: the options
\* ------------------------------------------------------------------------
\* an option that is either omitted or one of the values
OptField(field, values) == {<<>>} \cup {[x \in {field} |-> v] : v \in values}

Levels == {"component", "module", "architecture", "interface"}

EdgeTypeSets == {{"import"}, {"implement"}, {"render"}, {"import", "implement", "render"}}

FocusPaths == { "auth", "login.ts", "users/ui", "web", "IAuth" }

GlobalOptions ==
    {a @@ b : a \in OptField("level", Levels), b \in OptField("edgeTypes", EdgeTypeSets)}

FocusedOptions ==
    {[mode |-> "focused"] @@ a @@ b @@ c @@ d :
        a \in OptField("level", Levels),
        b \in OptField("edgeTypes", {{"implement"}, {"import", "implement", "render"}}),
        c \in OptField("focusPath", FocusPaths),
        d \in OptField("internalLevel", {"interface"})}

NeighborsOptions ==
    {[mode |-> "neighbors", edgeTypes |-> {"import", "implement", "render"}] @@ a @@ c @@ d :
        a \in OptField("level", Levels),
        c \in OptField("focusPath", FocusPaths \cup {"users"}),
        d \in OptField("neighborDepth", 0..MaxDepth)}

\* ------------------------------------------------------------------------
\* The process: calls of buildGraph, one after the other, sharing the alias
\* cache
\* ------------------------------------------------------------------------
NoOptions == <<>>

\* no diff in progress
NoChanges == [added |-> <<>>, modified |-> <<>>, removed |-> <<>>]

NoDiff == <<>>

\* no tool request in progress
NoArgs == <<>>

\* no parseProject in progress
NoParsing == <<>>

\* no request handler suspended
NoHandlers == {}

NoDiffCall ==
    /\ oldGraph = EmptyGraph
    /\ newGraph = EmptyGraph
    /\ changes = NoChanges
    /\ diff = NoDiff
    /\ args = NoArgs
    /\ parsing = NoParsing
    /\ inflight = NoHandlers

Init ==
    /\ \E s \in Sessions : files = s[1] /\ projectPath = s[2]
    /\ pathAliasCache = NoCache
    /\ options = NoOptions
    /\ graph = EmptyGraph
    /\ pc = "idle"
    /\ NoDiffCall

\* the alias table a call of buildGraph works with
AliasesFor(cache, project) ==
    IF HasProject(project) THEN loadPathAliases(cache, project.path) ELSE <<>>

\* the cache after a call of buildGraph
CacheAfterCall(cache, fs, opts, project) ==
    IF LoadsAliases(fs, opts, project) THEN CacheAfterLoad(cache, project.path) ELSE cache

\* one call buildGraph(fs, opts, project)
CallWith(fs, project, opts) ==
    /\ pc = "idle"
    /\ pc' = "done"
    /\ files' = fs
    /\ projectPath' = project
    /\ options' = opts
    /\ graph' = buildGraph(fs, opts, project, AliasesFor(pathAliasCache, project))
    /\ pathAliasCache' = CacheAfterCall(pathAliasCache, fs, opts, project)
    /\ UNCHANGED <<oldGraph, newGraph, changes, diff, parsing>>

\* one call buildGraph(files, opts, projectPath) of the caller's session
Call(opts) == CallWith(files, projectPath, opts)

BuildGlobal == \E opts \in GlobalOptions : Call(opts) /\ UNCHANGED <<args, inflight>>

BuildFocused == \E opts \in FocusedOptions : Call(opts) /\ UNCHANGED <<args, inflight>>

BuildNeighbors == \E opts \in NeighborsOptions : Call(opts) /\ UNCHANGED <<args, inflight>>

\* the cache after one call resolveImportPath(fromFile, importPath,
\* filePathMap, project) (lines 588-606)
CacheAfterResolve(cache, importPath, project) ==
    IF HasProject(project) /\ IsBare(importPath) THEN CacheAfterLoad(cache, project.path)
    ELSE cache

\* the caller resolves one import of one of its files by a call of the
\* exported resolveImportPath: the alias cache is all that the call leaves
ResolveImport ==
    /\ pc = "idle"
    /\ \E i \in 1..Len(files) : \E j \in 1..Len(files[i].imports) :
          pathAliasCache' = CacheAfterResolve(pathAliasCache, files[i].imports[j].importPath,
                                              projectPath)
    /\ UNCHANGED <<files, projectPath, options, graph, pc, oldGraph, newGraph, changes, diff,
                   args, parsing, inflight>>

\* the graph is handed to the caller; only the alias cache outlives the call
Return ==
    /\ pc = "done"
    /\ pc' = "idle"
    /\ options' = NoOptions
    /\ graph' = EmptyGraph
    /\ UNCHANGED <<files, projectPath, pathAliasCache, oldGraph, newGraph, changes, diff, args,
                   parsing, inflight>>

Next == BuildGlobal \/ BuildFocused \/ BuildNeighbors \/ ResolveImport \/ Return

Spec == Init /\ [][Next]_vars

\* ------------------------------------------------------------------------
\* The process serving requests for several project roots.  A handler reads
\* its arguments, is suspended while the files under its root are parsed,
\* and calls buildGraph when it resumes; the handlers of other requests run
\* while it is suspended, and all of them share the alias cache of the module
\* ------------------------------------------------------------------------
MaxInFlight == 2

AliasImports ==
    SeqsUpTo({Imp("@/auth/login"), Imp("@/users/repo.ts"), Imp("./login")}, MaxImports)
    \ {<<>>}

\* what parseProject may return for a root: the project under RootP and the
\* project under RootW, whose files import through the "@/" alias of their
\* own tsconfig.json
FilesUnder(root) ==
    IF root = RootP
    THEN { << File(P_session, imps), File(P_login, <<>>), File(P_repo, <<>>) >> :
             imps \in AliasImports }
    ELSE IF root = RootW
    THEN { << File(P_webRepo, imps), File(P_webLogin, <<>>) >> : imps \in AliasImports }
    ELSE {}

AliasOptions ==
    {a @@ b : a \in OptField("level", {"module"}),
              b \in OptField("edgeTypes", {{"import", "implement", "render"}})}

\* the handlers: the root and the options each has read
Requests ==
    {[projectPath |-> root, options |-> opts] : root \in {RootP, RootW}, opts \in AliasOptions}

AliasInit ==
    /\ files = <<>>
    /\ projectPath = NoProject
    /\ pathAliasCache = NoCache
    /\ options = NoOptions
    /\ graph = EmptyGraph
    /\ pc = "idle"
    /\ NoDiffCall

\* a request arrives: its handler reads its arguments and is suspended at
\* the parse of its project
NextRequest ==
    /\ pc = "idle"
    /\ Cardinality(inflight) < MaxInFlight
    /\ \E r \in Requests \ inflight : inflight' = inflight \cup {r}
    /\ UNCHANGED <<files, projectPath, pathAliasCache, options, graph, pc, oldGraph, newGraph,
                   changes, diff, args, parsing>>

\* the parse of one suspended handler ends: the handler resumes with the
\* files under its root and calls buildGraph
BuildRequest ==
    \E r \in inflight : \E fs \in FilesUnder(r.projectPath) :
        /\ CallWith(fs, Project(r.projectPath), r.options)
        /\ inflight' = inflight \ {r}
        /\ UNCHANGED args

\* a caller resolves an import under one of the roots by a call of the
\* exported resolveImportPath
ResolveForRoot ==
    /\ pc = "idle"
    /\ \E root \in {RootP, RootW} : \E importPath \in {"@/auth/login", "./login"} :
          pathAliasCache' = CacheAfterResolve(pathAliasCache, importPath, Project(root))
    /\ UNCHANGED <<files, projectPath, options, graph, pc, oldGraph, newGraph, changes, diff,
                   args, parsing, inflight>>

AliasNext == NextRequest \/ BuildRequest \/ ResolveForRoot \/ Return

AliasSpec == AliasInit /\ [][AliasNext]_vars

\* ------------------------------------------------------------------------
\* Inputs: the graphs and change sets to diff
\* ------------------------------------------------------------------------
DiffNodeMenu == << FileNode(P_login), FileNode(P_session), FileNode(P_repo) >>

DiffEdgeMenu ==
    << ImportEdge(generateNodeId(P_login), generateNodeId(P_session)),
       ImportEdge(generateNodeId(P_session), generateNodeId(P_login)),
       ImportEdge(generateNodeId(P_session), generateNodeId(P_repo)),
       ImportEdge(generateNodeId(P_repo), generateNodeId(P_login)),
       ImplementEdge(generateNodeId(P_session), generateNodeId(P_login), "IAuth",
                     "./login"),
       RenderEdge(generateNodeId(P_login), generateNodeId(P_session), 0),
       RenderEdge(generateNodeId(P_login), generateNodeId(P_session), 1) >>

\* the elements of a menu at the positions of S, in the menu's order
Pick(menu, S) ==
    [k \in 1..Cardinality(S) |->
        menu[CHOOSE i \in S : Cardinality({j \in S : j < i}) = k - 1]]

\* graphs whose edges join nodes of the graph
DiffGraphs ==
    {g \in {[nodes |-> Pick(DiffNodeMenu, N), edges |-> Pick(DiffEdgeMenu, E)] :
               N \in SUBSET (1..Len(DiffNodeMenu)),
               E \in {F \in SUBSET (1..Len(DiffEdgeMenu)) : Cardinality(F) <= MaxDiffEdges}} :
        \A i \in 1..Len(g.edges) :
            g.edges[i].from \in NodeIds(g) /\ g.edges[i].to \in NodeIds(g)}

ChangeSets ==
    {[added |-> <<>>, modified |-> m, removed |-> <<>>] : m \in {<<>>, <<P_login>>}}

\* ------------------------------------------------------------------------
\* The process: calls of buildDiff
\* ------------------------------------------------------------------------
DiffInit ==
    /\ files = <<>>
    /\ projectPath = NoProject
    /\ pathAliasCache = NoCache
    /\ options = NoOptions
    /\ graph = EmptyGraph
    /\ pc = "idle"
    /\ oldGraph \in DiffGraphs
    /\ newGraph \in DiffGraphs
    /\ changes \in ChangeSets
    /\ diff = NoDiff
    /\ args = NoArgs
    /\ parsing = NoParsing
    /\ inflight = NoHandlers

\* one call buildDiff(oldGraph, newGraph, changes)
BuildDiff ==
    /\ pc = "idle"
    /\ pc' = "done"
    /\ diff' = buildDiff(oldGraph, newGraph, changes)
    /\ UNCHANGED <<files, projectPath, pathAliasCache, options, graph,
                   oldGraph, newGraph, changes, args, parsing, inflight>>

\* the result is handed to the caller
DiffReturn ==
    /\ pc = "done"
    /\ pc' = "idle"
    /\ diff' = NoDiff
    /\ UNCHANGED <<files, projectPath, pathAliasCache, options, graph,
                   oldGraph, newGraph, changes, args, parsing, inflight>>

DiffNext == BuildDiff \/ DiffReturn

DiffSpec == DiffInit /\ [][DiffNext]_vars

\* ------------------------------------------------------------------------
\* The tools of the server: getDependencyGraph and getArchitectureDiff.  A
\* handler reads and defaults its arguments, is suspended at `await
\* parseProject(projectPath)` while other handlers run, and runs from there
\* to its return without suspending again
\* ------------------------------------------------------------------------
\* `args.field || dflt` for a field that holds a string: '' is falsy
OrDefault(a, field, dflt) == IF Has(a, field) /\ a[field] # "" THEN a[field] ELSE dflt

\* `args.field || dflt` for a field that holds a number: 0 is falsy
NumberOrDefault(a, field, dflt) ==
    IF Has(a, field) /\ a[field] # 0 THEN a[field] ELSE dflt

\* `args.field || dflt` for a field that holds an array: every array is truthy
ArrayOrDefault(a, field, dflt) == IF Has(a, field) THEN a[field] ELSE dflt

\* the options getDependencyGraph hands to buildGraph (server.ts, lines
\* 173-178 and 191)
GraphOptions(a) ==
    [level |-> OrDefault(a, "level", "file"),
     edgeTypes |-> ArrayOrDefault(a, "edgeTypes", {"import"}),
     mode |-> OrDefault(a, "mode", "global"),
     neighborDepth |-> NumberOrDefault(a, "neighborDepth", 1),
     internalLevel |-> OrDefault(a, "internalLevel", "file")]
    @@ (IF Has(a, "focusPath") THEN [focusPath |-> a.focusPath] ELSE <<>>)

\* the options getArchitectureDiff hands to buildGraph (server.ts, lines
\* 297-298 and 314)
DiffOptions(a) ==
    [level |-> OrDefault(a, "level", "file"),
     edgeTypes |-> ArrayOrDefault(a, "edgeTypes", {"import"})]

\* OldFiles putting back an empty record for every path listed as removed
OldFiles_WithRemoved(fs, chg) ==
    SelectSeq(fs, LAMBDA f : f.path \notin Range(chg.added))
    \o [i \in 1..Len(chg.removed) |-> File(chg.removed[i], <<>>)]

\* currentFiles.filter(f => !changes.added.includes(f.path)) (server.ts,
\* line 317)
OldFiles(fs, chg) == SelectSeq(fs, LAMBDA f : f.path \notin Range(chg.added))

\* `!projectPath || typeof projectPath !== 'string'` (lines 181 and 301),
\* negated
ValidProject(a) == Has(a, "projectPath") /\ a.projectPath # ""

\* the test of line 305, negated: changes with its three arrays
ValidChanges(a) ==
    /\ Has(a, "changes")
    /\ Has(a.changes, "added") /\ Has(a.changes, "modified") /\ Has(a.changes, "removed")

\* what parseProject returns for the root of the requests
ToolProjects ==
    { << File(P_login, <<Imp("./session")>>), File(P_session, <<Imp("../users/repo")>>),
         File(P_repo, <<>>) >>,
      << File(P_login, <<Imp("./session")>>), File(P_session, <<Imp("./login.ts")>>),
         File(P_repo, <<Imp("../auth/login")>>) >>,
      << File(P_repo, <<Imp("./ui/card")>>), File(P_card, <<>>) >>,
      << File(P_repo, <<Imp("./ui/card"), Imp(SpecMissing)>>), File(P_card, <<Imp("../repo")>>) >>,
      << File(P_session, <<Imp("./login")>>), File(P_login, <<>>), File(P_loginJs, <<>>) >>,
      << File(P_main, <<Imp("./auth/login")>>), File(P_login, <<>>) >> }

\* the arguments of the getDependencyGraph requests
GraphArgs ==
    {[tool |-> "getDependencyGraph", projectPath |-> RootP] @@ a @@ v :
        a \in OptField("level", {"component", ""}),
        v \in {<<>>, [mode |-> "neighbors"]}
              \cup {[mode |-> "neighbors", focusPath |-> "users"] @@ d :
                       d \in OptField("neighborDepth", 0..MaxDepth)}}

\* the arguments of the getArchitectureDiff requests
DiffArgs ==
    {[tool |-> "getArchitectureDiff", projectPath |-> RootP, changes |-> c] @@ a :
        a \in OptField("level", {"module"}),
        c \in {[added |-> <<>>, modified |-> <<>>, removed |-> <<>>],
               [added |-> <<P_login>>, modified |-> <<P_session>>, removed |-> <<P_main>>],
               [added |-> <<P_session, P_repo>>, modified |-> <<>>, removed |-> <<P_main>>],
               [added |-> <<>>, modified |-> <<P_session>>, removed |-> <<>>]}}

\* requests the handlers answer with an error: no project path, no changes,
\* changes without one of the three arrays
BadArgs ==
    {[tool |-> "getDependencyGraph", level |-> "component"],
     [tool |-> "getDependencyGraph", projectPath |-> ""],
     [tool |-> "getArchitectureDiff", projectPath |-> RootP],
     [tool |-> "getArchitectureDiff", projectPath |-> RootP,
      changes |-> [added |-> <<P_login>>, modified |-> <<>>]]}

ToolInit ==
    /\ files \in ToolProjects
    /\ projectPath = Project(RootP)
    /\ pathAliasCache = NoCache
    /\ options = NoOptions
    /\ graph = EmptyGraph
    /\ pc = "idle"
    /\ NoDiffCall

\* the local variables of a handler suspended at its parseProject
Handler(a, opts) == [args |-> a, options |-> opts]

\* a getDependencyGraph request arrives (server.ts, lines 167-187): the
\* arguments are read and defaulted, the project path is checked, and the
\* handler is suspended at parseProject
GetDependencyGraph ==
    /\ pc = "idle"
    /\ Cardinality(inflight) < MaxInFlight
    /\ \E a \in GraphArgs :
          /\ ValidProject(a)
          /\ Handler(a, GraphOptions(a)) \notin inflight
          /\ inflight' = inflight \cup {Handler(a, GraphOptions(a))}
    /\ UNCHANGED <<files, projectPath, pathAliasCache, options, graph, pc, oldGraph, newGraph,
                   changes, diff, args, parsing>>

\* a getArchitectureDiff request arrives (server.ts, lines 292-313)
GetArchitectureDiff ==
    /\ pc = "idle"
    /\ Cardinality(inflight) < MaxInFlight
    /\ \E a \in DiffArgs :
          /\ ValidProject(a) /\ ValidChanges(a)
          /\ Handler(a, DiffOptions(a)) \notin inflight
          /\ inflight' = inflight \cup {Handler(a, DiffOptions(a))}
    /\ UNCHANGED <<files, projectPath, pathAliasCache, options, graph, pc, oldGraph, newGraph,
                   changes, diff, args, parsing>>

\* a request fails the checks of lines 181-183 or 301-307: the handler
\* throws before it is suspended and answers with an error (lines 268-289,
\* 333-353)
RejectRequest ==
    /\ pc = "idle"
    /\ pc' = "failed"
    /\ \E a \in BadArgs :
          /\ ~ValidProject(a) \/ (a.tool = "getArchitectureDiff" /\ ~ValidChanges(a))
          /\ args' = a
    /\ UNCHANGED <<files, projectPath, pathAliasCache, options, graph, oldGraph, newGraph,
                   changes, diff, parsing, inflight>>

\* the parse of a suspended getDependencyGraph handler ends (server.ts,
\* lines 187-267): the handler resumes and builds its graph
ResumeDependencyGraph ==
    \E h \in inflight :
        /\ h.args.tool = "getDependencyGraph"
        /\ inflight' = inflight \ {h}
        /\ args' = h.args
        /\ CallWith(files, Project(h.args.projectPath), h.options)

\* the parse of a suspended getArchitectureDiff handler ends (server.ts,
\* lines 313-332): the current graph, the graph of the files not listed as
\* added, and their diff
ResumeArchitectureDiff ==
    \E h \in inflight :
        /\ h.args.tool = "getArchitectureDiff"
        /\ pc = "idle"
        /\ pc' = "done"
        /\ inflight' = inflight \ {h}
        /\ args' = h.args
        /\ options' = h.options
        /\ projectPath' = Project(h.args.projectPath)
        /\ changes' = h.args.changes
        /\ newGraph' = buildGraph(files, h.options, projectPath',
                                  AliasesFor(pathAliasCache, projectPath'))
        /\ oldGraph' = buildGraph(OldFiles(files, h.args.changes), h.options, projectPath',
                                  AliasesFor(CacheAfterCall(pathAliasCache, files, h.options,
                                                            projectPath'),
                                             projectPath'))
        /\ diff' = buildDiff(oldGraph', newGraph', h.args.changes)
        /\ pathAliasCache' =
               CacheAfterCall(CacheAfterCall(pathAliasCache, files, h.options, projectPath'),
                              OldFiles(files, h.args.changes), h.options, projectPath')
        /\ UNCHANGED <<files, graph, parsing>>

\* the response is sent; only the alias cache and the suspended handlers
\* outlive the request
ToolReturn ==
    /\ pc \in {"done", "failed"}
    /\ pc' = "idle"
    /\ options' = NoOptions
    /\ graph' = EmptyGraph
    /\ oldGraph' = EmptyGraph
    /\ newGraph' = EmptyGraph
    /\ changes' = NoChanges
    /\ diff' = NoDiff
    /\ args' = NoArgs
    /\ UNCHANGED <<files, projectPath, pathAliasCache, parsing, inflight>>

ToolNext ==
    \/ GetDependencyGraph
    \/ GetArchitectureDiff
    \/ RejectRequest
    \/ ResumeDependencyGraph
    \/ ResumeArchitectureDiff
    \/ ToolReturn

ToolSpec == ToolInit /\ [][ToolNext]_vars

\* ------------------------------------------------------------------------
\* parseProject: the parser is created, findSourceFiles walks the project
\* with one readdir awaited per directory, then the parseFile calls of all
\* files share the parser, each suspended at its file read.  Calls of
\* parseProject interleave at every await.
\* ------------------------------------------------------------------------
\* the grammar parseFile selects for a path (part_012, lines 57-63)
GrammarFor(filePath) ==
    IF EndsWith(filePath, ".tsx") \/ EndsWith(filePath, ".jsx") THEN "tsx" ELSE "typescript"

\* createParser (part_012, lines 41-45)
createParser == [language |-> "typescript"]

\* parser.setLanguage
SetLanguage(parser, language) == [parser EXCEPT !.language = language]

\* AfterRead parsing first and switching the grammar afterwards
AfterRead_SwitchLate(parser, filePath) ==
    [parser |-> SetLanguage(parser, GrammarFor(filePath)), parsedWith |-> parser.language]

\* what parseFile does between the end of its read and its return, without
\* suspending (part_012, lines 56-79): the grammar is set, then the content
\* is parsed with the parser's grammar
AfterRead(parser, filePath) ==
    [parser |-> SetLanguage(parser, GrammarFor(filePath)),
     parsedWith |-> SetLanguage(parser, GrammarFor(filePath)).language]

\* the number of parseProject calls in progress at once
MaxParses == 2

\* a directory entry: its name and what isDirectory() / isFile() answer
DirEntry(name) == [name |-> name, kind |-> "directory"]

FileEntry(name) == [name |-> name, kind |-> "file"]

LinkEntry(name) == [name |-> name, kind |-> "link"]

\* the directories on disk and their entries
Disk(dir) ==
    CASE dir = "/p" -> {DirEntry("src"), DirEntry("node_modules"), FileEntry("tsconfig.json")}
      [] dir = "/p/src" -> {DirEntry("auth"), DirEntry("users")}
      [] dir = "/p/src/auth" -> {FileEntry("login.ts")}
      [] dir = "/p/src/users" -> {FileEntry("repo.ts"), DirEntry("ui")}
      [] dir = "/p/src/users/ui" -> {FileEntry("card.tsx"), LinkEntry("latest")}
      [] OTHER -> {}

\* what fs.readdir may answer for a directory: its entries in any order
Listings(dir) ==
    {entries \in [1..Cardinality(Disk(dir)) -> Disk(dir)] : Range(entries) = Disk(dir)}

\* the roots parseProject is called with
ParseRoots == {"/p", "/p/src/users"}

\* shouldIgnoreDirectory (part_012, lines 525-539)
shouldIgnoreDirectory(name) ==
    name \in {"node_modules", "dist", "build", "out", ".git", ".next", ".nuxt", "coverage",
              "__pycache__", "venv"}

\* isSourceFile (part_012, lines 543-546)
isSourceFile(filename) == Extname(filename) \in SourceExts

\* the walk of findSourceFiles from the frames of the traverse calls that
\* have their entries, the innermost last, up to the next readdir or to the
\* end of the walk (part_012, lines 499-513 and 519-520): a directory that
\* is not ignored is read before the entries after it, a source file is
\* pushed, anything else is skipped
RECURSIVE traverse(_, _)
RECURSIVE VisitEntry(_, _, _, _)
traverse(stack, found) ==
    IF stack = <<>>
    THEN [walked |-> TRUE, pending |-> "", stack |-> <<>>, found |-> found]
    ELSE IF stack[Len(stack)].rest = <<>>
    THEN traverse(SubSeq(stack, 1, Len(stack) - 1), found)
    ELSE VisitEntry([stack EXCEPT ![Len(stack)].rest = Tail(@)],
                    stack[Len(stack)].dir, Head(stack[Len(stack)].rest), found)

\* one entry of the loop (lines 500-512)
VisitEntry(stack, dir, entry, found) ==
    IF entry.kind = "directory" /\ ~shouldIgnoreDirectory(entry.name)
    THEN [walked |-> FALSE, pending |-> PathJoin(<<dir, entry.name>>), stack |-> stack,
          found |-> found]
    ELSE IF entry.kind = "file" /\ isSourceFile(entry.name)
    THEN traverse(stack, Append(found, PathJoin(<<dir, entry.name>>)))
    ELSE traverse(stack, found)

\* a call of parseProject suspended at the readdir of `pending`
Walking(parser, pending, stack, found) ==
    [phase |-> "walking", parser |-> parser, pending |-> pending, stack |-> stack,
     sources |-> found, results |-> <<>>]

\* a call of parseProject once the walk has ended (lines 487-488): every
\* parseFile has run up to its read
Reading(parser, sources) ==
    [phase |-> "reading", parser |-> parser, pending |-> "", stack |-> <<>>,
     sources |-> sources, results |-> [i \in 1..Len(sources) |-> "reading"]]

\* the call after a readdir was answered
AfterReaddir(parser, walk) ==
    IF walk.walked THEN Reading(parser, walk.found)
    ELSE Walking(parser, walk.pending, walk.stack, walk.found)

ParseInit ==
    /\ files = <<>>
    /\ projectPath \in {Project(RootP)}
    /\ pathAliasCache = NoCache
    /\ options = NoOptions
    /\ graph = EmptyGraph
    /\ pc = "idle"
    /\ NoDiffCall

\* parseProject is called (part_012, lines 484-486 and 494-498): the parser
\* is created and the call is suspended at the readdir of its root
StartParse ==
    /\ Len(parsing) < MaxParses
    /\ \E root \in ParseRoots :
          parsing' = Append(parsing, Walking(createParser, root, <<>>, <<>>))
    /\ UNCHANGED <<files, projectPath, pathAliasCache, options, graph, pc,
                   oldGraph, newGraph, changes, diff, args, inflight>>

\* the readdir a call awaits is answered (line 498): the walk goes on to
\* its next readdir or ends, and then every file's read is started
ReadDirDone ==
    /\ \E c \in 1..Len(parsing) : \E entries \in Listings(parsing[c].pending) :
          /\ parsing[c].phase = "walking"
          /\ parsing' =
                 [parsing EXCEPT ![c] =
                     AfterReaddir(@.parser,
                                  traverse(Append(@.stack, [dir |-> @.pending, rest |-> entries]),
                                           @.sources))]
    /\ UNCHANGED <<files, projectPath, pathAliasCache, options, graph, pc,
                   oldGraph, newGraph, changes, diff, args, inflight>>

\* the readdir a call awaits is rejected (lines 515-517): the directory is
\* skipped
ReadDirFailed ==
    /\ \E c \in 1..Len(parsing) :
          /\ parsing[c].phase = "walking"
          /\ parsing' =
                 [parsing EXCEPT ![c] = AfterReaddir(@.parser, traverse(@.stack, @.sources))]
    /\ UNCHANGED <<files, projectPath, pathAliasCache, options, graph, pc,
                   oldGraph, newGraph, changes, diff, args, inflight>>

\* the files of a call whose read is pending
Pending(call) == {k \in 1..Len(call.results) : call.results[k] = "reading"}

\* the read of one file ends and its parseFile runs to its return
ReadDone ==
    /\ \E c \in 1..Len(parsing) : \E i \in Pending(parsing[c]) :
          parsing' =
              [parsing EXCEPT
                  ![c].parser = AfterRead(@, parsing[c].sources[i]).parser,
                  ![c].results[i] =
                      AfterRead(parsing[c].parser, parsing[c].sources[i]).parsedWith]
    /\ UNCHANGED <<files, projectPath, pathAliasCache, options, graph, pc,
                   oldGraph, newGraph, changes, diff, args, inflight>>

\* the read of one file is rejected (line 55) and its parseFile returns null
\* (lines 80-83): the parser is not touched
ReadFailed ==
    /\ \E c \in 1..Len(parsing) : \E i \in Pending(parsing[c]) :
          parsing' = [parsing EXCEPT ![c].results[i] = "failed"]
    /\ UNCHANGED <<files, projectPath, pathAliasCache, options, graph, pc,
                   oldGraph, newGraph, changes, diff, args, inflight>>

\* the read of one file ends, the grammar is set (lines 57-63) and the
\* parse or an extraction throws (lines 64-71): its parseFile returns null
\* (lines 80-83) and the parser keeps the grammar of that file
ParseThrew ==
    /\ \E c \in 1..Len(parsing) : \E i \in Pending(parsing[c]) :
          parsing' =
              [parsing EXCEPT
                  ![c].parser = SetLanguage(@, GrammarFor(parsing[c].sources[i])),
                  ![c].results[i] = "failed"]
    /\ UNCHANGED <<files, projectPath, pathAliasCache, options, graph, pc,
                   oldGraph, newGraph, changes, diff, args, inflight>>

\* Promise.all of a call resolves and its parseProject returns (lines
\* 488-489)
ParseReturn ==
    /\ \E c \in 1..Len(parsing) :
          /\ parsing[c].phase = "reading"
          /\ Pending(parsing[c]) = {}
          /\ parsing' = SubSeq(parsing, 1, c - 1) \o SubSeq(parsing, c + 1, Len(parsing))
    /\ UNCHANGED <<files, projectPath, pathAliasCache, options, graph, pc,
                   oldGraph, newGraph, changes, diff, args, inflight>>

ParseNext ==
    \/ StartParse
    \/ ReadDirDone
    \/ ReadDirFailed
    \/ ReadDone
    \/ ReadFailed
    \/ ParseThrew
    \/ ParseReturn

ParseSpec == ParseInit /\ [][ParseNext]_vars

\* ------------------------------------------------------------------------
\* The call in progress, as the properties read it
\* ------------------------------------------------------------------------
Done == pc = "done"

Level == Opt(options, "level", "file")

EdgeTypes == IF Has(options, "edgeTypes") THEN options.edgeTypes ELSE {"import"}

\* the call took the focused branch of buildGraph
Focusing == Opt(options, "mode", "global") = "focused" /\ HasFocus(options)

\* the call took the neighbors branch of buildGraph
Filtering == Opt(options, "mode", "global") = "neighbors" /\ HasFocus(options)

HierarchyLevels == {"architecture", "module", "component"}

\* the returned graph was built by buildFileGraph
FileView ==
    /\ Done
    /\ IF Focusing THEN Opt(options, "internalLevel", "file") # "interface"
       ELSE Level = "file"

\* the returned graph is the whole file-level graph
GlobalFileView == Done /\ ~Focusing /\ ~Filtering /\ Level = "file"

\* the returned graph was built by buildHierarchyGraph
AggregatedView == Done /\ ~Focusing /\ Level \in HierarchyLevels

\* the returned graph is the whole aggregated graph
GlobalAggregatedView == AggregatedView /\ ~Filtering

\* the alias table the call resolved bare specifiers with
AliasesInForce ==
    AliasesFor(pathAliasCache, projectPath)

\* what an import path written in the file resolves to, among the input files
Resolve(file, importPath) ==
    resolveImportPath(file.path, importPath, BuildFilePathMap(<<>>, files), projectPath,
                      AliasesInForce)

\* the grouping key of a path at the requested level
GroupOf(path) == extractHierarchyKey(detectHierarchy(path), Level)

\* the grouping keys found among the input files
GroupKeys == {GroupOf(files[i].path).value :
                 i \in {k \in 1..Len(files) : ~GroupOf(files[k].path).isNull}}

\* file i has an import that resolves to a file of group key2
ImportsInto(i, key2) ==
    \E j \in 1..Len(files[i].imports) :
        /\ ~Resolve(files[i], files[i].imports[j].importPath).isNull
        /\ GroupOf(Resolve(files[i], files[i].imports[j].importPath).value) = Some(key2)

\* the (implementing file, interface name) pairs whose import path resolves
\* to an input file, with the ids of both files
ImplementTriples ==
    UNION {
        UNION {
            {<<generateNodeId(files[i].path),
               generateNodeId(Resolve(files[i], files[i].implements[j].interfacePaths[n]).value),
               n>> :
                n \in {m \in Range(files[i].implements[j].interfaces)
                              \cap DOMAIN files[i].implements[j].interfacePaths :
                          ~Resolve(files[i], files[i].implements[j].interfacePaths[m]).isNull}}
            : j \in 1..Len(files[i].implements)}
        : i \in {k \in 1..Len(files) : Has(files[k], "implements")}}

\* the (from, to, position) of every JSX usage whose component has an import
\* that resolves to an input file
RenderTriples ==
    UNION {
        {<<generateNodeId(files[i].path),
           generateNodeId(Resolve(files[i], RenderImportPath(files[i], files[i].renders[j]).value).value),
           files[i].renders[j].position>> :
            j \in {k \in 1..Len(files[i].renders) :
                      /\ ~RenderImportPath(files[i], files[i].renders[k]).isNull
                      /\ ~Resolve(files[i], RenderImportPath(files[i], files[i].renders[k]).value).isNull}}
        : i \in {k \in 1..Len(files) : Has(files[k], "renders")}}

\* the render edges of the returned graph
RenderEdgesOf(g) == SelectSeq(g.edges, LAMBDA e : e.type = "render")

\* the graph of the requested level, before any view filter
WholeGraph ==
    GraphAtLevel(files, BuildFilePathMap(<<>>, files), Level, RequestedEdgeTypes(options),
                 projectPath, AliasesInForce)

\* the nodes of g the focus path matches, and the edges of g between them
SeedsOnly(g, focusPath) ==
    [nodes |-> SelectSeq(g.nodes, LAMBDA node : IsFocusNode(node, focusPath)),
     edges |-> SelectSeq(g.edges, LAMBDA edge :
                  /\ \E i \in 1..Len(g.nodes) :
                         g.nodes[i].id = edge.from /\ IsFocusNode(g.nodes[i], focusPath)
                  /\ \E i \in 1..Len(g.nodes) :
                         g.nodes[i].id = edge.to /\ IsFocusNode(g.nodes[i], focusPath))]

\* g has an edge between a node of part and a node outside part
HasOutsideNeighbor(g, part) ==
    \E i \in 1..Len(g.edges) :
        \/ g.edges[i].from \in NodeIds(part) /\ g.edges[i].to \notin NodeIds(part)
        \/ g.edges[i].to \in NodeIds(part) /\ g.edges[i].from \notin NodeIds(part)

\* the paths of the input files the focus path matches at the requested level
FocusSet ==
    {files[i].path : i \in {k \in 1..Len(files) : IsFocusFile(files[k], Level, options.focusPath)}}

\* file i has an import that resolves to an input file outside the set S
ImportsOutside(i, S) ==
    \E j \in 1..Len(files[i].imports) :
        /\ ~Resolve(files[i], files[i].imports[j].importPath).isNull
        /\ Resolve(files[i], files[i].imports[j].importPath).value \notin S

\* every ordering of a file list
Orderings(fs) ==
    {[i \in 1..Len(fs) |-> fs[p[i]]] : p \in Permutations(1..Len(fs))}

\* the graph the call would have returned for another ordering of its files
GraphOf(fs) == buildGraph(fs, options, projectPath, AliasesInForce)

\* the paths of the input files
FilePaths == {files[i].path : i \in 1..Len(files)}

FirstFile(resolved, hits) ==
    IF hits = {} THEN Null ELSE Some(resolved \o Extensions[Min(hits)])

\* the first of the literal path and the suffixed paths, in the order of the
\* extension list, that is the path of an input file
FirstCandidate(resolved) ==
    FirstFile(resolved, {k \in 1..Len(Extensions) : resolved \o Extensions[k] \in FilePaths})

\* the alias table of the config files under the call's own project root
OwnAliases == ReadAliases(projectPath.path, ConfigFiles(projectPath.path))

\* the ids an edge of g joins to an id of S, in either direction
Adjacent(g, S) ==
    {g.edges[i].to : i \in {k \in 1..Len(g.edges) : g.edges[k].from \in S}}
    \cup {g.edges[i].from : i \in {k \in 1..Len(g.edges) : g.edges[k].to \in S}}

\* the ids at the end of a path of at most d edges of g, each taken in either
\* direction, that starts in S
RECURSIVE Within(_, _, _)
Within(g, S, d) ==
    IF d = 0 THEN S ELSE Within(g, S, d - 1) \cup Adjacent(g, Within(g, S, d - 1))

\* the nodes of g with an id in ids, and the edges of g between two of them
Between(g, ids) ==
    [nodes |-> SelectSeq(g.nodes, LAMBDA node : node.id \in ids),
     edges |-> SelectSeq(g.edges, LAMBDA edge : edge.from \in ids /\ edge.to \in ids)]

\* the ids of the nodes of g whose path stands in relation Rel to the focus path
Matching(g, focusPath, Rel(_, _)) ==
    {g.nodes[i].id : i \in {k \in 1..Len(g.nodes) : Rel(g.nodes[k].path, focusPath)}}

\* the seeds by precedence: the exact matches, or else the suffix matches, or
\* else the substring matches
TieredSeeds(g, focusPath) ==
    IF Matching(g, focusPath, LAMBDA p, f : p = f) # {}
    THEN Matching(g, focusPath, LAMBDA p, f : p = f)
    ELSE IF Matching(g, focusPath, EndsWith) # {}
    THEN Matching(g, focusPath, EndsWith)
    ELSE Matching(g, focusPath, Includes)

\* the first config file of the list that exists, if any
FirstExisting(cfgs) ==
    IF \E k \in 1..Len(cfgs) : cfgs[k].exists
    THEN Some(cfgs[Min({k \in 1..Len(cfgs) : cfgs[k].exists})])
    ELSE Null

\* the alias table of one config file taken alone: empty when there is no
\* file, when it does not parse, or when it has no paths entry
TableOf(root, cfg) ==
    IF cfg.isNull THEN <<>>
    ELSE IF ~cfg.value.parses THEN <<>>
    ELSE IF ~cfg.value.hasPaths THEN <<>>
    ELSE AliasesOfConfig(root, cfg.value)

\* the type names declared in the input files
DeclaredNames ==
    UNION {{TypeDefsOf(files[i])[j].name : j \in 1..Len(TypeDefsOf(files[i]))} : i \in 1..Len(files)}

\* (from, symbol name, kind) of the edges one definition of one file asks
\* for: one per declared name of its extends and implements lists, one per
\* declared name of its references list other than its own
LinksOfDef(typeDef, filePath) ==
    {<<TypeNodeId(typeDef, filePath), n, "implement">> :
        n \in (Range(OptList(typeDef, "extends")) \cup Range(OptList(typeDef, "implements")))
               \cap DeclaredNames}
    \cup {<<TypeNodeId(typeDef, filePath), n, "use">> :
             n \in (Range(OptList(typeDef, "references")) \cap DeclaredNames) \ {typeDef.name}}

LinksOfFiles ==
    UNION {UNION {LinksOfDef(TypeDefsOf(files[i])[j], files[i].path) :
                     j \in 1..Len(TypeDefsOf(files[i]))} : i \in 1..Len(files)}

\* ------------------------------------------------------------------------
\* Properties
\* ------------------------------------------------------------------------
\* C1: in every graph buildGraph returns, whatever the level, the mode and
\* the edge kinds, each edge's from and to are ids of nodes of that graph.
C1_NoDanglingEdges ==
    Done => \A i \in 1..Len(graph.edges) :
                /\ graph.edges[i].from \in NodeIds(graph)
                /\ graph.edges[i].to \in NodeIds(graph)

\* a neighbors view that kept an edge and left out the target of another
C1_Witness ==
    /\ Done /\ Filtering /\ Level = "file"
    /\ Len(graph.edges) >= 1
    /\ \E i \in 1..Len(files) : \E j \in 1..Len(files[i].imports) :
          /\ ~Resolve(files[i], files[i].imports[j].importPath).isNull
          /\ generateNodeId(files[i].path) \in NodeIds(graph)
          /\ generateNodeId(Resolve(files[i], files[i].imports[j].importPath).value)
                \notin NodeIds(graph)

\* C2: at the architecture, module and component levels the aggregated graph
\* has no edge whose from equals its to, so an import between two files of
\* the same group yields no edge.
C2_NoSelfEdge ==
    AggregatedView => \A i \in 1..Len(graph.edges) : graph.edges[i].from # graph.edges[i].to

\* an aggregated graph of files one of which imports a file of its own group
C2_Witness ==
    /\ GlobalAggregatedView
    /\ \E i \in 1..Len(files) :
          /\ ~GroupOf(files[i].path).isNull
          /\ ImportsInto(i, GroupOf(files[i].path).value)

\* C3: at the architecture, module and component levels the graph has, for
\* two distinct groups G1 and G2, exactly one edge G1 -> G2 when a file of
\* G1 has an import resolving to a file of G2, and none otherwise.
C3_OneEdgePerGroupPair ==
    GlobalAggregatedView =>
        \A key1 \in GroupKeys : \A key2 \in GroupKeys \ {key1} :
            Cardinality({i \in 1..Len(graph.edges) :
                            /\ graph.edges[i].from = ParentId(Level, key1)
                            /\ graph.edges[i].to = ParentId(Level, key2)})
            = IF \E i \in 1..Len(files) :
                     GroupOf(files[i].path) = Some(key1) /\ ImportsInto(i, key2)
              THEN 1 ELSE 0

\* an aggregated graph of files one of which has two imports resolving into
\* another group
C3_Witness ==
    /\ GlobalAggregatedView
    /\ Len(graph.edges) = 1
    /\ \E i \in 1..Len(files) : \E j1 \in 1..Len(files[i].imports) :
       \E j2 \in 1..Len(files[i].imports) :
          /\ j1 # j2
          /\ ~Resolve(files[i], files[i].imports[j1].importPath).isNull
          /\ ~Resolve(files[i], files[i].imports[j2].importPath).isNull
          /\ ~GroupOf(files[i].path).isNull
          /\ GroupOf(Resolve(files[i], files[i].imports[j1].importPath).value)
               = GroupOf(Resolve(files[i], files[i].imports[j2].importPath).value)
          /\ ~GroupOf(Resolve(files[i], files[i].imports[j1].importPath).value).isNull
          /\ GroupOf(Resolve(files[i], files[i].imports[j1].importPath).value)
               # GroupOf(files[i].path)

\* C4: at file level in global mode the nodes are one hierarchy node of level
\* file per input file, with the id of its path, and nothing else; an edge
\* joins two of these nodes and stands for an import that resolves to an
\* input file, so an unresolved import adds neither a node nor an edge.
C4_FileNodes ==
    GlobalFileView =>
        /\ Len(graph.nodes) = Len(files)
        /\ \A i \in 1..Len(files) : \E k \in 1..Len(graph.nodes) :
              graph.nodes[k].path = files[i].path
        /\ \A k \in 1..Len(graph.nodes) :
              /\ graph.nodes[k].type = "hierarchy"
              /\ graph.nodes[k].level = "file"
              /\ graph.nodes[k].id = generateNodeId(graph.nodes[k].path)
              /\ \A l \in 1..Len(graph.nodes) :
                    graph.nodes[l].id = graph.nodes[k].id => l = k
        /\ \A e \in 1..Len(graph.edges) :
              graph.edges[e].type = "import" =>
                  \E i \in 1..Len(files) : \E j \in 1..Len(files[i].imports) :
                      /\ ~Resolve(files[i], files[i].imports[j].importPath).isNull
                      /\ graph.edges[e].from = generateNodeId(files[i].path)
                      /\ graph.edges[e].to =
                            generateNodeId(Resolve(files[i], files[i].imports[j].importPath).value)

\* a file-level graph of two files of the same name, one of which has an
\* import that resolves to no input file
C4_Witness ==
    /\ GlobalFileView
    /\ \E i \in 1..Len(files) : \E k \in 1..Len(files) :
          /\ i # k
          /\ Basename(files[i].path, Extname(files[i].path))
                = Basename(files[k].path, Extname(files[k].path))
    /\ \E i \in 1..Len(files) : \E j \in 1..Len(files[i].imports) :
          Resolve(files[i], files[i].imports[j].importPath).isNull

\* C5: a graph built by the file graph builder has at most one import edge
\* per ordered pair (from, to).
C5_OneImportEdgePerPair ==
    FileView =>
        \A i \in 1..Len(graph.edges) : \A j \in 1..Len(graph.edges) :
            /\ graph.edges[i].type = "import" /\ graph.edges[j].type = "import"
            /\ graph.edges[i].from = graph.edges[j].from
            /\ graph.edges[i].to = graph.edges[j].to
            => i = j

\* a file-level graph of a file with a plain and a type-only import of the
\* same file
C5_Witness ==
    /\ GlobalFileView /\ "import" \in EdgeTypes
    /\ Len(graph.edges) >= 1
    /\ \E i \in 1..Len(files) : \E j1 \in 1..Len(files[i].imports) :
       \E j2 \in 1..Len(files[i].imports) :
          /\ ~files[i].imports[j1].isTypeOnly /\ files[i].imports[j2].isTypeOnly
          /\ ~Resolve(files[i], files[i].imports[j1].importPath).isNull
          /\ Resolve(files[i], files[i].imports[j1].importPath)
               = Resolve(files[i], files[i].imports[j2].importPath)

\* C6: a graph built by the file graph builder has only edges of the
\* requested kinds, and of kind import when edgeTypes is omitted.
C6_OnlyRequestedKinds ==
    FileView => \A i \in 1..Len(graph.edges) : graph.edges[i].type \in EdgeTypes

\* a default call on files with a resolvable implementation, returning edges
C6_Witness ==
    /\ GlobalFileView /\ ~Has(options, "edgeTypes")
    /\ ImplementTriples # {}
    /\ Len(graph.edges) >= 1

\* C7: at the architecture, module and component levels in global mode the
\* nodes are one hierarchy node per grouping key found among the input
\* files, with the requested level and the key as path, and nothing else;
\* every edge joins two of these nodes, so a file without a key adds nothing.
C7_GroupNodes ==
    GlobalAggregatedView =>
        /\ Len(graph.nodes) = Cardinality(GroupKeys)
        /\ {graph.nodes[k].path : k \in 1..Len(graph.nodes)} = GroupKeys
        /\ \A k \in 1..Len(graph.nodes) :
              /\ graph.nodes[k].type = "hierarchy"
              /\ graph.nodes[k].level = Level
              /\ graph.nodes[k].id = ParentId(Level, graph.nodes[k].path)
        /\ \A e \in 1..Len(graph.edges) :
              /\ graph.edges[e].from \in {ParentId(Level, key) : key \in GroupKeys}
              /\ graph.edges[e].to \in {ParentId(Level, key) : key \in GroupKeys}

\* an aggregated graph of a file with a key that imports a file without one
C7_Witness ==
    /\ GlobalAggregatedView
    /\ Len(graph.nodes) >= 1
    /\ \E i \in 1..Len(files) : \E j \in 1..Len(files[i].imports) :
          /\ ~GroupOf(files[i].path).isNull
          /\ ~Resolve(files[i], files[i].imports[j].importPath).isNull
          /\ GroupOf(Resolve(files[i], files[i].imports[j].importPath).value).isNull

\* C8: at module or component level in global mode the nodes include, for
\* every input file, a file node whose parent is the id of the file's group
\* node.
C8_HybridNodes ==
    GlobalAggregatedView /\ Level \in {"module", "component"} =>
        \A i \in 1..Len(files) :
            ~GroupOf(files[i].path).isNull =>
                \E k \in 1..Len(graph.nodes) :
                    /\ graph.nodes[k].level = "file"
                    /\ graph.nodes[k].path = files[i].path
                    /\ Has(graph.nodes[k], "parent")
                    /\ graph.nodes[k].parent = ParentId(Level, GroupOf(files[i].path).value)

\* C9: with implement edges requested, no implement edge carries an
\* interface name for which the implementing file's facts record no import
\* path, and the build returns a graph.
C9_NoEdgeForLocalInterface ==
    FileView /\ "implement" \in EdgeTypes =>
        \A e \in 1..Len(graph.edges) :
            graph.edges[e].type = "implement" =>
                \E i \in 1..Len(files) :
                    /\ generateNodeId(files[i].path) = graph.edges[e].from
                    /\ Has(files[i], "implements")
                    /\ \E j \in 1..Len(files[i].implements) :
                          graph.edges[e].symbolName \in DOMAIN files[i].implements[j].interfacePaths

\* a file-level graph, implement edges requested, of a class implementing an
\* imported interface and one declared in its own file
C9_Witness ==
    /\ GlobalFileView /\ "implement" \in EdgeTypes
    /\ Len(graph.nodes) = Len(files)
    /\ Len(graph.edges) >= 1
    /\ \E i \in 1..Len(files) :
          /\ Has(files[i], "implements")
          /\ \E j \in 1..Len(files[i].implements) :
                Range(files[i].implements[j].interfaces)
                    \ DOMAIN files[i].implements[j].interfacePaths # {}

\* C10: with implement edges requested, the file-level graph has exactly one
\* implement edge for each triple (implementing file, interface file,
\* symbolName) whose interface import resolves to an input file.
C10_OneImplementEdgePerTriple ==
    GlobalFileView /\ "implement" \in EdgeTypes =>
        \A t \in ImplementTriples :
            Cardinality({e \in 1..Len(graph.edges) :
                            /\ graph.edges[e].type = "implement"
                            /\ graph.edges[e].from = t[1]
                            /\ graph.edges[e].to = t[2]
                            /\ graph.edges[e].symbolName = t[3]}) = 1

\* ------------------------------------------------------------------------
\* C11: with render edges requested, the whole file-level graph has one
\* render edge per (from, to, position) of a JSX usage whose component resolves
\* to an input file, each carrying the position of its usage, and no two
\* render edges share (from, to, position): a target rendered at k positions
\* gets k edges, three distinct children get three edges at 0, 1, 2.
\* ------------------------------------------------------------------------
C11_RenderEdgePositions ==
    (GlobalFileView /\ "render" \in EdgeTypes) =>
        /\ {<<e.from, e.to, e.position>> : e \in Range(RenderEdgesOf(graph))} = RenderTriples
        /\ Len(RenderEdgesOf(graph)) = Cardinality(RenderTriples)

\* card.tsx renders three distinct children: three render edges to three
\* targets, at the positions 0, 1 and 2
C11_Witness ==
    /\ GlobalFileView /\ "render" \in EdgeTypes
    /\ Len(RenderEdgesOf(graph)) = 3
    /\ Cardinality({e.to : e \in Range(RenderEdgesOf(graph))}) = 3
    /\ {e.position : e \in Range(RenderEdgesOf(graph))} = {0, 1, 2}
    /\ \A e \in Range(RenderEdgesOf(graph)) : e.from = generateNodeId(P_card)

\* ------------------------------------------------------------------------
\* C12: a neighbors call with depth 0 returns exactly the nodes of the
\* requested level's graph that the focus path matches (the seeds) and
\* exactly the edges of that graph whose two ends are seeds.
\* ------------------------------------------------------------------------
C12_DepthZeroIsSeeds ==
    (Done /\ Filtering /\ Opt(options, "neighborDepth", 1) = 0) =>
        graph = SeedsOnly(WholeGraph, options.focusPath)

\* a depth-0 call whose seed has a neighbor in the whole graph
C12_Witness ==
    /\ Done /\ Filtering /\ Opt(options, "neighborDepth", 1) = 0
    /\ graph.nodes # <<>>
    /\ HasOutsideNeighbor(WholeGraph, graph)

\* ------------------------------------------------------------------------
\* C13: a focused call whose focus path matches no input file, and a
\* neighbors call whose focus path matches no node of the requested level's
\* graph, both return the graph with no nodes and no edges.
\* ------------------------------------------------------------------------
C13_NoMatchIsEmpty ==
    /\ (Done /\ Focusing /\ FocusSet = {}) => graph = EmptyGraph
    /\ (Done /\ Filtering /\ FocusNodeIds(WholeGraph, options.focusPath) = {}) =>
           graph = EmptyGraph

\* a focused call that matches no file of a project whose file-level graph
\* has nodes and edges
C13_Witness ==
    /\ Done /\ Focusing /\ FocusSet = {}
    /\ Opt(options, "internalLevel", "file") = "file"
    /\ "import" \in EdgeTypes
    /\ \E i \in 1..Len(files) : ImportsOutside(i, {files[i].path})

\* ------------------------------------------------------------------------
\* C14: in focused mode every returned node has the path of an input file
\* the focus path matches at the requested level, and every returned edge
\* joins two returned nodes, so none ends in a file outside the focus set,
\* even when a focus file imports a file outside it.
\* ------------------------------------------------------------------------
C14_FocusedStaysInside ==
    (Done /\ Focusing) =>
        /\ \A i \in 1..Len(graph.nodes) : graph.nodes[i].path \in FocusSet
        /\ \A i \in 1..Len(graph.edges) :
               graph.edges[i].from \in NodeIds(graph) /\ graph.edges[i].to \in NodeIds(graph)

\* a focused file-level call with import edges requested, where a focus file
\* imports an input file outside the focus set
C14_Witness ==
    /\ Done /\ Focusing
    /\ Opt(options, "internalLevel", "file") = "file"
    /\ "import" \in EdgeTypes
    /\ graph.nodes # <<>>
    /\ \E i \in 1..Len(files) : files[i].path \in FocusSet /\ ImportsOutside(i, FocusSet)

\* ------------------------------------------------------------------------
\* C18: a call of buildGraph with project root R that resolves an alias
\* import uses the alias table of R's own config files, and returns the graph
\* that table yields, also when an earlier call for another root loaded the
\* cache.
\* ------------------------------------------------------------------------
C18_AliasesOfOwnRoot ==
    (Done /\ LoadsAliases(files, options, projectPath)) =>
        /\ AliasesInForce = OwnAliases
        /\ graph = buildGraph(files, options, projectPath, OwnAliases)

\* ------------------------------------------------------------------------
\* C19: the node ids and the edge identities (kind, from, to) of the
\* returned graph are those buildGraph returns, under the same options, for
\* every other ordering of the same files.
\* ------------------------------------------------------------------------
C19_OrderIndependent ==
    Done =>
        \A fs \in Orderings(files) :
            /\ NodeIds(GraphOf(fs)) = NodeIds(graph)
            /\ EdgeIdentities(GraphOf(fs).edges) = EdgeIdentities(graph.edges)

\* ------------------------------------------------------------------------
\* C20: within a call of buildGraph, every relative import resolves to the
\* first of the literal resolved path and that path with the suffixes .ts,
\* .tsx, .js, .jsx, .mts, .cts, /index.ts, /index.js, in this order, that is
\* the path of an input file, and to nothing when none is.
\* ------------------------------------------------------------------------
C20_FirstCandidateWins ==
    Done =>
        \A i \in 1..Len(files) :
            \A j \in 1..Len(files[i].imports) :
                IsRelative(files[i].imports[j].importPath) =>
                    Resolve(files[i], files[i].imports[j].importPath)
                        = FirstCandidate(PathResolve(<<Dirname(files[i].path),
                                                       files[i].imports[j].importPath>>))

\* ------------------------------------------------------------------------
\* C21: a neighbors call with depth d returns exactly the nodes of the
\* requested level's graph within d edges of a seed, each edge taken in
\* either direction, and exactly the edges of that graph between two of them.
\* ------------------------------------------------------------------------
C21_NeighborsWithinDepth ==
    (Done /\ Filtering) =>
        graph = Between(WholeGraph,
                        Within(WholeGraph, FocusNodeIds(WholeGraph, options.focusPath),
                               Opt(options, "neighborDepth", 1)))

\* a depth-2 call that returns a node two edges away from every seed and
\* leaves out a node of the whole graph
C21_Witness ==
    /\ Done /\ Filtering /\ Opt(options, "neighborDepth", 1) = 2
    /\ NodeIds(graph) # Within(WholeGraph, FocusNodeIds(WholeGraph, options.focusPath), 1)
    /\ FocusNodeIds(WholeGraph, options.focusPath) # {}

\* ------------------------------------------------------------------------
\* C22: a neighbors call takes as seeds the nodes whose path equals the focus
\* path, or else, when there is none, those whose path ends with it, or else
\* those whose path contains it: when a node matches exactly, a node whose
\* path merely ends with or contains the focus path is no seed.
\* ------------------------------------------------------------------------
C22_SeedPrecedence ==
    (Done /\ Filtering) =>
        graph = Between(WholeGraph,
                        Within(WholeGraph, TieredSeeds(WholeGraph, options.focusPath),
                               Opt(options, "neighborDepth", 1)))

\* ------------------------------------------------------------------------
\* C25: a call that loads the aliases of its project root takes them from
\* the first of tsconfig.json and jsconfig.json that exists; when that file
\* does not parse the table is empty and every bare specifier of the input
\* files resolves to nothing.
\* ------------------------------------------------------------------------
C25_FirstExistingConfig ==
    (Done /\ LoadsAliases(files, options, projectPath)) =>
        /\ AliasesInForce
             = TableOf(projectPath.path, FirstExisting(ConfigFiles(projectPath.path)))
        /\ (/\ ~FirstExisting(ConfigFiles(projectPath.path)).isNull
            /\ ~FirstExisting(ConfigFiles(projectPath.path)).value.parses) =>
               \A i \in 1..Len(files) :
                   \A j \in 1..Len(files[i].imports) :
                       IsBare(files[i].imports[j].importPath) =>
                           Resolve(files[i], files[i].imports[j].importPath).isNull

\* ------------------------------------------------------------------------
\* C27: in the whole interface-level graph, the edges are those the type
\* definitions ask for through their extends, implements and references
\* lists, each leaving the node created for the definition it comes from
\* (same kind, name and file), also when another file declares the name.
\* ------------------------------------------------------------------------
C27_EdgesLeaveOwnNode ==
    (Done /\ ~Focusing /\ ~Filtering /\ Level = "interface") =>
        {<<graph.edges[i].from, graph.edges[i].symbolName, graph.edges[i].type>> :
            i \in 1..Len(graph.edges)} = LinksOfFiles

\* ------------------------------------------------------------------------
\* C28: at architecture, module and component level in global mode every
\* returned edge is an import edge, and the graph is the one buildGraph
\* returns for every other value of edgeTypes, omitted or without import.
\* ------------------------------------------------------------------------
C28_AggregatesImportsOnly ==
    GlobalAggregatedView =>
        /\ \A i \in 1..Len(graph.edges) : graph.edges[i].type = "import"
        /\ \A opts \in {o \in GlobalOptions : Opt(o, "level", "file") = Level} :
               graph = buildGraph(files, opts, projectPath, AliasesInForce)

\* a module-level call for render edges only, on files that import across
\* modules: the graph has import edges
C28_Witness ==
    /\ GlobalAggregatedView
    /\ Level = "module"
    /\ EdgeTypes = {"render"}
    /\ graph.edges # <<>>

\* ------------------------------------------------------------------------
\* C29: whatever the order in which the file reads of a parseProject end,
\* every file that is parsed is parsed with the grammar of its own extension:
\* TSX for .tsx and .jsx, TypeScript otherwise.
\* ------------------------------------------------------------------------
C29_OwnGrammar ==
    \A c \in 1..Len(parsing) :
        \A i \in 1..Len(parsing[c].results) :
            parsing[c].results[i] \in {"reading", "failed", GrammarFor(parsing[c].sources[i])}

\* while another call of parseProject still walks its project, a call has
\* parsed a file as TSX before the read of a file listed earlier has ended,
\* and a file as TypeScript after that
C29_Witness ==
    \E c \in 1..Len(parsing), d \in 1..Len(parsing) :
        /\ parsing[d].phase = "walking"
        /\ parsing[c].phase = "reading"
        /\ parsing[c].parser.language = "typescript"
        /\ \E i \in 1..Len(parsing[c].results), j \in 1..Len(parsing[c].results) :
              /\ i < j
              /\ parsing[c].results[i] = "reading"
              /\ parsing[c].results[j] = "tsx"
        /\ \E k \in 1..Len(parsing[c].results) : parsing[c].results[k] = "typescript"

\* ------------------------------------------------------------------------
\* The tool request in progress, as the properties read it
\* ------------------------------------------------------------------------
GraphRequest == pc = "done" /\ args # NoArgs /\ args.tool = "getDependencyGraph"

DiffRequest == pc = "done" /\ args # NoArgs /\ args.tool = "getArchitectureDiff"

\* ------------------------------------------------------------------------
\* C26: getDependencyGraph hands to buildGraph the neighbor depth of the
\* request, and 1 only when the request has none: a neighbors request with
\* depth 0 returns the seeds and the edges between seeds.
\* ------------------------------------------------------------------------
C26_ExplicitDepthKept ==
    GraphRequest =>
        /\ options.neighborDepth = Opt(args, "neighborDepth", 1)
        /\ (/\ Opt(args, "mode", "global") = "neighbors"
            /\ Has(args, "focusPath")
            /\ Opt(args, "neighborDepth", 1) = 0) =>
               graph = SeedsOnly(WholeGraph, args.focusPath)

\* ------------------------------------------------------------------------
\* C30: in a getArchitectureDiff request the nodes of the old graph are
\* nodes of the current graph, so the diff reports no removed node and
\* summary.removedNodes is 0, whatever the request lists as removed.
\* ------------------------------------------------------------------------
C30_NoRemovedNodes ==
    DiffRequest =>
        /\ NodeIds(oldGraph) \subseteq NodeIds(newGraph)
        /\ diff.removed.nodes = <<>>
        /\ diff.summary.removedNodes = 0

\* a request that lists a removed file and an added file, whose diff has an
\* added node
C30_Witness ==
    /\ DiffRequest
    /\ changes.removed # <<>>
    /\ changes.added # <<>>
    /\ diff.added.nodes # <<>>
    /\ oldGraph.nodes # <<>>

\* ------------------------------------------------------------------------
\* The diff in progress, as the properties read it
\* ------------------------------------------------------------------------
DiffDone == pc = "done" /\ diff # NoDiff

\* part holds, once each, the items of whole whose identity is in ids, each
\* a copy with the given status
CopiesOf(part, whole, ids, partIds, status) ==
    /\ partIds = ids
    /\ Len(part) = Cardinality(ids)
    /\ \A i \in 1..Len(part) :
          /\ part[i].status = status
          /\ \E k \in 1..Len(whole) : part[i] = [whole[k] EXCEPT !.status = status]

\* the transitive closure of a relation, by n rounds of composition
RECURSIVE Closure(_, _)
Closure(R, n) ==
    IF n = 0 THEN R
    ELSE Closure(R \cup {<<p[1], q[2]>> : <<p, q>> \in {pq \in R \X R : pq[1][2] = pq[2][1]}},
                 n - 1)

\* the (from, to) of the import edges of a graph
ImportPairs(g) ==
    {<<g.edges[i].from, g.edges[i].to>> : i \in {k \in 1..Len(g.edges) : g.edges[k].type = "import"}}

\* the cycle paths the diff reports, none when the field is absent
CircularPaths == IF Has(diff.summary, "circularPaths") THEN diff.summary.circularPaths ELSE <<>>

\* C15: the added part of a diff holds exactly the nodes of new whose id old
\* lacks and the edges of new whose (kind, from, to) old lacks, each copied
\* with status added; the removed part holds those of old that new lacks,
\* with status removed.  Edges of one graph that share (kind, from, to) are
\* one identity, reported once.
C15_AddedAndRemoved ==
    DiffDone =>
        /\ CopiesOf(diff.added.nodes, newGraph.nodes,
                    NodeIds(newGraph) \ NodeIds(oldGraph), NodeIds(diff.added), "added")
        /\ CopiesOf(diff.added.edges, newGraph.edges,
                    EdgeIdentities(newGraph.edges) \ EdgeIdentities(oldGraph.edges),
                    EdgeIdentities(diff.added.edges), "added")
        /\ CopiesOf(diff.removed.nodes, oldGraph.nodes,
                    NodeIds(oldGraph) \ NodeIds(newGraph), NodeIds(diff.removed), "removed")
        /\ CopiesOf(diff.removed.edges, oldGraph.edges,
                    EdgeIdentities(oldGraph.edges) \ EdgeIdentities(newGraph.edges),
                    EdgeIdentities(diff.removed.edges), "removed")

\* a diff of two graphs that share a node, each with a node and an edge the
\* other lacks
C15_Witness ==
    /\ DiffDone
    /\ Len(diff.added.nodes) >= 1 /\ Len(diff.added.edges) >= 1
    /\ Len(diff.removed.nodes) >= 1 /\ Len(diff.removed.edges) >= 1
    /\ NodeIds(oldGraph) \cap NodeIds(newGraph) # {}

\* C16: the ids of the nodes a diff of (A, B) reports as added are the ids of
\* the nodes the diff of (B, A) reports as removed.
C16_DiffSymmetry ==
    DiffDone =>
        NodeIds(diff.added) = NodeIds(buildDiff(newGraph, oldGraph, changes).removed)

\* a diff of two different graphs that share a node, with an added node
C16_Witness ==
    /\ DiffDone
    /\ Len(diff.added.nodes) >= 1
    /\ Len(diff.removed.nodes) >= 1
    /\ NodeIds(oldGraph) \cap NodeIds(newGraph) # {}
    /\ changes.modified # <<>>

\* C17: the diff flags a circular dependency exactly when the import edges
\* of the new graph contain a directed cycle.
C17_CycleFlag ==
    DiffDone =>
        diff.summary.hasCircularDependency
        = \E p \in Closure({<<newGraph.edges[i].from, newGraph.edges[i].to>> :
                              i \in {k \in 1..Len(newGraph.edges) :
                                        newGraph.edges[k].type = "import"}},
                           Len(newGraph.edges)) : p[1] = p[2]

\* login.ts imports session.ts and session.ts imports login.ts, diffed
\* against the empty graph
C17_Witness ==
    /\ DiffDone
    /\ oldGraph = EmptyGraph
    /\ newGraph.edges = << ImportEdge(generateNodeId(P_login), generateNodeId(P_session)),
                           ImportEdge(generateNodeId(P_session), generateNodeId(P_login)) >>
    /\ diff.summary.hasCircularDependency

\* C23: every cycle path a diff reports begins and ends with the same node
\* id and steps along import edges of the new graph; when the import edges
\* of the new graph are the two edges of a two-file cycle, one path of three
\* ids is reported.
C23_CyclePathsClosed ==
    DiffDone =>
        /\ \A c \in 1..Len(CircularPaths) :
              /\ Len(CircularPaths[c]) >= 2
              /\ CircularPaths[c][1] = CircularPaths[c][Len(CircularPaths[c])]
              /\ \A k \in 1..(Len(CircularPaths[c]) - 1) :
                    <<CircularPaths[c][k], CircularPaths[c][k + 1]>> \in ImportPairs(newGraph)
        /\ \A a \in NodeIds(newGraph), b \in NodeIds(newGraph) :
              (a # b /\ ImportPairs(newGraph) = {<<a, b>>, <<b, a>>}) =>
                  /\ Len(CircularPaths) = 1
                  /\ CircularPaths[1] \in {<<a, b, a>>, <<b, a, b>>}

\* login.ts and session.ts import each other, beside a render edge: the path
\* login, session, login is reported
C23_Witness ==
    /\ DiffDone
    /\ ImportPairs(newGraph) = {<<generateNodeId(P_login), generateNodeId(P_session)>>,
                                <<generateNodeId(P_session), generateNodeId(P_login)>>}
    /\ Len(newGraph.edges) = 3
    /\ CircularPaths = << <<generateNodeId(P_login), generateNodeId(P_session),
                             generateNodeId(P_login)>> >>

\* the ids of the nodes of the new graph whose path the change set lists as
\* modified
ModifiedIds ==
    {newGraph.nodes[i].id :
        i \in {k \in 1..Len(newGraph.nodes) : newGraph.nodes[k].path \in Range(changes.modified)}}

\* C24: the modified part of a diff holds exactly the nodes of both graphs
\* (by id) whose path the change set lists as modified, and exactly the edges
\* of both graphs (by kind, from, to) with an end at a node whose path is
\* listed, each a copy of the new graph's item with status modified.
C24_ModifiedPart ==
    DiffDone =>
        /\ CopiesOf(diff.modified.nodes, newGraph.nodes,
                    NodeIds(oldGraph) \cap NodeIds(newGraph) \cap ModifiedIds,
                    NodeIds(diff.modified), "modified")
        /\ CopiesOf(diff.modified.edges, newGraph.edges,
                    {e \in EdgeIdentities(oldGraph.edges) \cap EdgeIdentities(newGraph.edges) :
                        e[2] \in ModifiedIds \/ e[3] \in ModifiedIds},
                    EdgeIdentities(diff.modified.edges), "modified")

\* login.ts is modified and in both graphs, with an edge of both graphs into
\* it, an edge of both graphs that does not touch it, and an edge into it
\* that only the new graph has
C24_Witness ==
    /\ DiffDone
    /\ changes.modified = <<P_login>>
    /\ Len(diff.modified.nodes) = 1
    /\ \E i \in 1..Len(diff.modified.edges) : diff.modified.edges[i].to = generateNodeId(P_login)
    /\ \E e \in EdgeIdentities(oldGraph.edges) \cap EdgeIdentities(newGraph.edges) :
           e[2] # generateNodeId(P_login) /\ e[3] # generateNodeId(P_login)
    /\ \E i \in 1..Len(diff.added.edges) : diff.added.edges[i].to = generateNodeId(P_login)

====
